---- MODULE Spec2Model ----
(***************************************************************************)
(* A model of libvips/foreign/foreign.c: the lazy load pipeline of         *)
(* VipsForeignLoad (build, the start function that triggers ->load on the  *)
(* first pixel request, the choice of backing image) together with the     *)
(* operation cache and the per-image start/stop lock it runs under.        *)
(***************************************************************************)
EXTENDS Integers, Sequences, FiniteSets, TLC

\* ------------------------------------------------------------------ bounds

\* Threads that ask the output image of a load for pixels.
NThreads == 2

\* Load operation objects that can be constructed in one behaviour.
MaxOps == 2

\* Load operation objects that can be constructed in one behaviour of the
\* single-caller specification, which runs every request.
BuildOps == 1

\* The count of ->load calls on one operation saturates here.
CallCap == 2

\* Classes registered below VipsForeign.
MaxClasses == 2

\* Bands of the images handed to a saver.
MaxSrcBands == 5

\* The library calls of one conversion that can be made to fail: the first
\* MaxFail of them.
MaxFail == 3

Threads == 1..NThreads

Ops == 1..MaxOps

\* ------------------------------------------------------ values of the code

\* VipsForeignFlags, as a set of the bits that are on.
ForeignFlagBits == {"PARTIAL", "BIGENDIAN", "SEQUENTIAL"}

\* VipsAccess.
Accesses == {"RANDOM", "SEQUENTIAL", "SEQUENTIAL_UNBUFFERED"}

\* The flags a handler class puts in operation_class->flags in class_init.
ClassFlagSets == {{}, {"UNTRUSTED"}, {"NOCACHE"}}

\* The five header fields vips_foreign_load_iscompat compares.
Shapes == [Xsize : {1, 2}, Ysize : {1, 2}, Bands : {1, 3},
           Coding : {"NONE", "LABQ"}, BandFmt : {"UCHAR", "USHORT"}]

\* What ->header() can read from the files of the model.
HeaderShapes ==
    {[Xsize |-> 2, Ysize |-> 2, Bands |-> 1, Coding |-> "NONE", BandFmt |-> "UCHAR"]}

\* The header fields a decoder can leave on the image it fills, for a file
\* whose header read as h: the same, any single field different, or all.
DecodedShapes(h) ==
    LET other == [Xsize |-> 3 - h.Xsize, Ysize |-> 3 - h.Ysize,
                  Bands |-> 4 - h.Bands,
                  Coding |-> IF h.Coding = "NONE" THEN "LABQ" ELSE "NONE",
                  BandFmt |-> IF h.BandFmt = "UCHAR" THEN "USHORT" ELSE "UCHAR"]
    IN  {h, other}
          \cup {[h EXCEPT ![f] = other[f]] :
                   f \in {"Xsize", "Ysize", "Bands", "Coding", "BandFmt"}}

\* Values vips_get_disc_threshold() can return (bytes).
DiscThresholds == {2, 4, 8}

\* sizeof one band element.
SizeofFormat(fmt) == IF fmt = "UCHAR" THEN 1 ELSE 2

\* VIPS_IMAGE_SIZEOF_IMAGE: bytes of the uncompressed image.
ImageSizeof(im) == im.Xsize * im.Bands * SizeofFormat(im.BandFmt) * im.Ysize

\* A NULL VipsImage pointer.
NullImage == [kind |-> "NULL", Xsize |-> 0, Ysize |-> 0, Bands |-> 0,
              Coding |-> "NONE", BandFmt |-> "UCHAR", operation |-> 0]

\* A new image from vips_image_new(), vips_image_new_memory() or
\* vips_image_new_temp_file(): one pixel, one band, no qdata.
NewImage(kind) == [kind |-> kind, Xsize |-> 1, Ysize |-> 1, Bands |-> 1,
                   Coding |-> "NONE", BandFmt |-> "UCHAR", operation |-> 0]

ShapeOf(im) == [Xsize |-> im.Xsize, Ysize |-> im.Ysize, Bands |-> im.Bands,
                Coding |-> im.Coding, BandFmt |-> im.BandFmt]

\* The image after a decoder wrote the header fields in `shape` to it.
WithShape(im, shape) ==
    [im EXCEPT !.Xsize = shape.Xsize, !.Ysize = shape.Ysize, !.Bands = shape.Bands,
               !.Coding = shape.Coding, !.BandFmt = shape.BandFmt]

\* The arguments, the handler class and the file of a load request: what "the
\* identical load request" keeps the same. header is what ->header() reads
\* from the file and decoded what ->load() leaves on the image it fills.
AllArgs ==
    [get_flags : SUBSET ForeignFlagBits, class_load : BOOLEAN,
     class_flags : ClassFlagSets, access : Accesses, memory : BOOLEAN,
     disc : BOOLEAN, revalidate : BOOLEAN, header : HeaderShapes,
     decoded : Shapes, disc_threshold : DiscThresholds]

\* ------------------------------------------------------------------- state

VARIABLES
    arg,        \* the load request: handler class and arguments
    load,       \* load[o]: the VipsForeignLoad object o, its images, and
                \* the last value its start function returned (seq) and how
                \* often its ->header() and ->load() were called
    nops,       \* how many load objects were constructed
    cache,      \* the operation in the operation cache (0: none)
    sslock,     \* sslock[o]: the thread that holds out->sslock of o (0: free)
    thr,        \* thr[t]: a thread: where it is and the load whose image it holds
    reg,        \* the registered classes and the discovery query run on them
    sav,        \* the image a saver converts, the saver, and the conversion
    save,       \* a VipsForeignSave: its arguments, the images and save->ready
    tiff        \* a VipsForeignSaveTiff: its arguments and what the writer got

vars == <<arg, load, nops, cache, sslock, thr, reg, sav, save, tiff>>

\* A VipsForeignLoad after vips_foreign_load_init().
NewLoad ==
    [life |-> "new", flags |-> {}, memory |-> FALSE, disc |-> TRUE,
     access |-> "RANDOM", revalidate |-> FALSE, nocache |-> FALSE,
     error |-> FALSE, invalidated |-> FALSE, real |-> NullImage,
     out |-> NullImage, start_fn |-> FALSE, sequential |-> FALSE,
     pipeline |-> FALSE, decode |-> "none", seq |-> "none",
     header_calls |-> 0, load_calls |-> 0]

IdleThread == [pc |-> "idle", cur |-> 0]

TypeOK ==
    /\ arg \in AllArgs
    /\ nops \in 0..MaxOps
    /\ cache \in 0..MaxOps
    /\ \A o \in Ops : sslock[o] \in 0..NThreads
    /\ \A t \in Threads : thr[t].pc \in {"off", "idle", "start", "load"}


\* ------------------------------------------------- vips_foreign_load_build

\* flags ^= VIPS_FOREIGN_PARTIAL on a set of bits.
FlagsXor(flags, bit) == (flags \ {bit}) \cup ({bit} \ flags)

\* Mutant: the wrong bit is cleared when both are set.
BuildFlags_ClearsSequential(flags) ==
    IF "PARTIAL" \in flags /\ "SEQUENTIAL" \in flags
    THEN FlagsXor(flags, "SEQUENTIAL")
    ELSE flags

\* The flags vips_foreign_load_build stores from what ->get_flags() returned.
BuildFlags(flags) ==
    IF "PARTIAL" \in flags /\ "SEQUENTIAL" \in flags
    THEN FlagsXor(flags, "PARTIAL")
    ELSE flags

\* Mutant: the access test is forgotten.
BuildNocache_IgnoresAccess(flags, access) == "SEQUENTIAL" \in flags

\* load->nocache after build: seq loaders running in seq mode are not cached.
BuildNocache(flags, access) == "SEQUENTIAL" \in flags /\ access # "RANDOM"

\* Mutant: the start function is installed whether or not there is a ->load().
BuildInstallsStart_Always(class_load) == TRUE

\* Whether build delays the read to vips_foreign_load_start.
BuildInstallsStart(class_load) == class_load

\* Mutant: only sequential loaders get the marker.
BuildSetsSequential_NeedsFlag(flags, access) ==
    "SEQUENTIAL" \in flags /\ access # "RANDOM"

\* Whether build sets VIPS_META_SEQUENTIAL on the output image.
BuildSetsSequential(flags, access) == access # "RANDOM"

\* vips_foreign_load_build on an object whose arguments were set from a;
\* header_ok is what the handler's ->header() returned.
vips_foreign_load_build(l, a, header_ok) ==
    LET flags == BuildFlags(a.get_flags)
        withargs == [l EXCEPT !.memory = a.memory, !.disc = a.disc,
                              !.access = a.access, !.revalidate = a.revalidate]
        l1 == [withargs EXCEPT !.flags = flags,
                               !.nocache = BuildNocache(flags, a.access),
                               !.out = NewImage("partial"),
                               !.header_calls = l.header_calls + 1]
    IN  IF ~header_ok
        THEN l1
        ELSE [l1 EXCEPT !.out = WithShape(l1.out, a.header),
                        !.start_fn = BuildInstallsStart(a.class_load),
                        !.sequential = BuildSetsSequential(flags, a.access),
                        !.life = "built"]

\* vips_foreign_load_operation_get_flags: the class's flags plus ours.
vips_foreign_load_operation_get_flags(l, a) ==
    a.class_flags
        \cup (IF l.nocache THEN {"NOCACHE"} ELSE {})
        \cup (IF l.revalidate THEN {"REVALIDATE"} ELSE {})

\* -------------------------------------------------- vips_foreign_load_temp

\* Mutant: >= for >.
OverDiscThreshold_OrEqual(image_size, disc_threshold) == image_size >= disc_threshold

\* image_size > disc_threshold
OverDiscThreshold(image_size, disc_threshold) == image_size > disc_threshold

\* load->memory after vips_foreign_load_temp: a disc forced FALSE sets it.
TempMemory(l) == l.memory \/ ~l.disc

\* The kind of image vips_foreign_load_temp makes for the decoded pixels.
vips_foreign_load_temp(l, disc_threshold) ==
    IF TempMemory(l) THEN "memory"
    ELSE IF "PARTIAL" \in l.flags THEN "partial"
    ELSE IF "SEQUENTIAL" \in l.flags /\ l.access # "RANDOM" THEN "partial"
    ELSE IF OverDiscThreshold(ImageSizeof(l.out), disc_threshold) THEN "disc"
    ELSE "memory"

\* ------------------------------------------------- vips_foreign_load_start

\* Mutant: BandFmt is not compared.
vips_foreign_load_iscompat_NoFormat(a, b) ==
    ~(\/ a.Xsize # b.Xsize
      \/ a.Ysize # b.Ysize
      \/ a.Bands # b.Bands
      \/ a.Coding # b.Coding)

\* Check two images for compatibility: their geometries need to match.
vips_foreign_load_iscompat(a, b) ==
    ~(\/ a.Xsize # b.Xsize
      \/ a.Ysize # b.Ysize
      \/ a.Bands # b.Bands
      \/ a.Coding # b.Coding
      \/ a.BandFmt # b.BandFmt)

\* Mutant: the result of ->load() is not looked at.
StartLoadFailed_IgnoresLoad(load_ok, pio_ok, real, out) ==
    ~pio_ok \/ ~vips_foreign_load_iscompat(real, out)

\* The test after ->load(): class->load(load) || vips_image_pio_input(real)
\* || !vips_foreign_load_iscompat(real, out).
StartLoadFailed(load_ok, pio_ok, real, out) ==
    ~load_ok \/ ~pio_ok \/ ~vips_foreign_load_iscompat(real, out)

\* Mutant: the start function does not look at load->error.
StartFailedBefore_Never(l) == FALSE

\* if (load->error) return NULL;
StartFailedBefore(l) == l.error

\* Mutant: the start function opens and decodes on every call.
StartMustOpen_Always(l) == TRUE

\* if (!load->real): the lazy open is still to do.
StartMustOpen(l) == l.real = NullImage

\* Mutant: the failed operation is not invalidated.
StartFail_NoInvalidate(l) == [l EXCEPT !.error = TRUE]

\* vips_operation_invalidate(VIPS_OPERATION(load)); load->error = TRUE;
StartFail(l) == [l EXCEPT !.invalidated = TRUE, !.error = TRUE]

Bump(n) == IF n < CallCap THEN n + 1 ELSE CallCap

\* The start function of load l returns v to vips__region_start, which stores
\* it as the region's sequence value and unlocks.
Return(t, o, l, v) ==
    /\ load' = [load EXCEPT ![o] = [l EXCEPT !.seq = v]]
    /\ thr' = [thr EXCEPT ![t].pc = "idle"]
    /\ sslock' = [sslock EXCEPT ![o] = 0]

\* vips__region_start: the first pixel request of a region runs the image's
\* start function under out->sslock; an image without one just has pixels.
vips__region_start(t) ==
    LET o == thr[t].cur
    IN  /\ thr[t].pc = "idle"
        /\ o # 0
        /\ IF load[o].start_fn
           THEN /\ sslock[o] = 0
                /\ sslock' = [sslock EXCEPT ![o] = t]
                /\ thr' = [thr EXCEPT ![t].pc = "start"]
           ELSE UNCHANGED <<sslock, thr>>
        /\ UNCHANGED <<tiff, save, sav, reg, arg, load, nops, cache>>

\* vips_foreign_load_start up to the call of class->load().
vips_foreign_load_start(t) ==
    LET o == thr[t].cur
        l == load[o]
    IN  /\ thr[t].pc = "start"
        /\ IF StartFailedBefore(l)
           THEN Return(t, o, l, "NULL")
           ELSE IF StartMustOpen(l)
           THEN \E made \in BOOLEAN :
                  LET l1 == [l EXCEPT !.memory = TempMemory(l)]
                      kind == vips_foreign_load_temp(l, arg.disc_threshold)
                  IN  IF ~made
                      THEN Return(t, o, l1, "NULL")
                      ELSE /\ load' = [load EXCEPT ![o] =
                                  [l1 EXCEPT !.real =
                                      [NewImage(kind) EXCEPT !.operation = o],
                                      !.decode = "running",
                                      !.load_calls = Bump(@)]]
                           /\ thr' = [thr EXCEPT ![t].pc = "load"]
                           /\ UNCHANGED sslock
           ELSE Return(t, o, l, "region")
        /\ UNCHANGED <<tiff, save, sav, reg, arg, nops, cache>>

\* class->load() returns, and vips_foreign_load_start runs to its end.
vips_foreign_load_start_loaded(t) ==
    LET o == thr[t].cur
        l == load[o]
    IN  /\ thr[t].pc = "load"
        /\ \E load_ok \in BOOLEAN, pio_ok \in BOOLEAN, linked \in BOOLEAN :
              LET l1 == [l EXCEPT !.real = WithShape(l.real, arg.decoded),
                                  !.decode = IF load_ok THEN "ok" ELSE "error"]
              IN  IF StartLoadFailed(load_ok, pio_ok, l1.real, l1.out)
                  THEN Return(t, o, StartFail(l1), "NULL")
                  ELSE IF ~linked
                  THEN Return(t, o, l1, "NULL")
                  ELSE Return(t, o, [l1 EXCEPT !.pipeline = TRUE], "region")
        /\ UNCHANGED <<tiff, save, sav, reg, arg, nops, cache>>

\* Whether vips_foreign_load_invalidate(image) signals invalidate: only if the
\* image carries the load operation as qdata.
InvalidateSignals(image) == image.operation # 0

\* vips_foreign_load_invalidate(image): a loader saw a read error on the
\* image it is making (which: "out" or "real").
vips_foreign_load_invalidate(o, which) ==
    LET image == IF which = "out" THEN load[o].out ELSE load[o].real
    IN  /\ load[o].life = "built"
        /\ image # NullImage
        /\ load' = [load EXCEPT ![o].invalidated =
                        IF InvalidateSignals(image) THEN TRUE ELSE @]
        /\ UNCHANGED <<tiff, save, sav, reg, arg, nops, cache, sslock, thr>>

\* ------------------------------------------------------ the operation cache

\* vips_foreign_load_dispose, run when the last reference to the operation
\* goes: the decoded image is unreferenced and the object is freed, so none
\* of its fields can be read any more.
vips_foreign_load_dispose(l) == [NewLoad EXCEPT !.life = "disposed"]

\* The loads after thread t gave up what it held and the cache holds kept:
\* a load that no thread and no cache entry references is disposed of.
Unreferenced(loads, t, kept) ==
    [o \in Ops |->
        IF /\ loads[o].life # "disposed"
           /\ o <= nops
           /\ o # kept
           /\ \A u \in Threads \ {t} : thr[u].cur # o
        THEN vips_foreign_load_dispose(loads[o])
        ELSE loads[o]]

\* The cache entry a lookup for the request finds, dropped if it was
\* invalidated or if the request asks to revalidate (0: no hit).
CacheHit(a) ==
    IF cache # 0 /\ ~load[cache].invalidated /\ ~a.revalidate THEN cache ELSE 0

\* vips_cache_operation_build: thread t asks for the load; a hit returns the
\* cached operation, a miss builds a new one and caches it unless NOCACHE.
vips_cache_operation_build(t) ==
    /\ thr[t].pc = "idle"
    /\ thr[t].cur = 0
    /\ IF CacheHit(arg) # 0
       THEN /\ thr' = [thr EXCEPT ![t].cur = CacheHit(arg)]
            /\ UNCHANGED <<load, nops, cache>>
       ELSE /\ nops < MaxOps
            /\ \E header_ok \in BOOLEAN :
                 LET o == nops + 1
                     l == vips_foreign_load_build(NewLoad, arg, header_ok)
                     keep == IF "NOCACHE" \in
                                  vips_foreign_load_operation_get_flags(l, arg)
                             THEN 0
                             ELSE o
                 IN  /\ nops' = o
                     /\ IF l.life = "built"
                        THEN /\ thr' = [thr EXCEPT ![t].cur = o]
                             /\ cache' = keep
                             /\ load' = [Unreferenced(load, t, keep) EXCEPT ![o] = l]
                        ELSE /\ cache' = 0
                             /\ load' = [Unreferenced(load, t, 0) EXCEPT ![o] =
                                            vips_foreign_load_dispose(l)]
                             /\ UNCHANGED thr
    /\ UNCHANGED <<tiff, save, sav, reg, arg, sslock>>

\* The caller drops its reference to the output image.
Unref(t) ==
    /\ thr[t].pc = "idle"
    /\ thr[t].cur # 0
    /\ thr' = [thr EXCEPT ![t].cur = 0]
    /\ load' = Unreferenced(load, t, cache)
    /\ UNCHANGED <<tiff, save, sav, reg, arg, nops, cache, sslock>>

\* ---------------------------------------------------------- format registry

\* Text is a sequence of characters.  The characters of the file names, and
\* their lower-case forms.
Lower(ch) == IF ch = "A" THEN "a" ELSE IF ch = "B" THEN "b" ELSE ch

\* vips_iscasepostfix(a, b): a ends in b, whatever the case of the letters.
vips_iscasepostfix(a, b) ==
    /\ Len(b) <= Len(a)
    /\ \A k \in 1..Len(b) : Lower(a[Len(a) - Len(b) + k]) = Lower(b[k])

\* The place of the rightmost "[" of a name that ends in "]" (0: the name
\* has no trailing [options]).
RightmostBracket(name) ==
    IF name # <<>> /\ name[Len(name)] = "]" /\ \E k \in 1..Len(name) : name[k] = "["
    THEN CHOOSE k \in 1..Len(name) :
            name[k] = "[" /\ \A j \in (k + 1)..Len(name) : name[j] # "["
    ELSE 0

\* vips__filename_split8(name, filename, option_string): the filename part.
vips__filename_split8(name) ==
    IF RightmostBracket(name) = 0 THEN name
    ELSE SubSeq(name, 1, RightmostBracket(name) - 1)

\* vips_filename_suffix_match(path, suffixes): trailing options are dropped,
\* then one of the suffixes has to end the name.
vips_filename_suffix_match(path, suffixes) ==
    \E k \in 1..Len(suffixes) :
        vips_iscasepostfix(vips__filename_split8(path), suffixes[k])

\* A nickname is a sequence of words: <<"x", "load", "_buffer">>.
vips_isprefix(a, b) == Len(a) <= Len(b) /\ SubSeq(b, 1, Len(a)) = a

g_str_has_suffix(str, suffix) == str # <<>> /\ str[Len(str)] = suffix

\* A class below VipsForeign.  A NULL method is "NULL", otherwise the method
\* accepts the content it names; a NULL suffs is <<>>.
Class(base, nickname, priority, blocked, abstract, is_a, is_a_buffer, is_a_source, suffs) ==
    [base |-> base, nickname |-> nickname, priority |-> priority,
     blocked |-> blocked, abstract |-> abstract, is_a |-> is_a,
     is_a_buffer |-> is_a_buffer, is_a_source |-> is_a_source, suffs |-> suffs]

Loader(nickname, priority, blocked, is_a, is_a_buffer, is_a_source, suffs) ==
    Class("VipsForeignLoad", nickname, priority, blocked, FALSE,
          is_a, is_a_buffer, is_a_source, suffs)

Saver(nickname, priority, blocked, abstract, suffs) ==
    Class("VipsForeignSave", nickname, priority, blocked, abstract,
          "NULL", "NULL", "NULL", suffs)

SuffA == <<<<".", "a">>>>
SuffB == <<<<".", "b">>>>
SuffBA == <<<<".", "b">>, <<".", "a">>>>

\* The classes a program registers.
LoadClasses ==
    { Loader(<<"a", "load">>, 0, FALSE, "A", "NULL", "NULL", SuffA),
      Loader(<<"a", "load">>, 1, TRUE, "A", "NULL", "NULL", SuffA),
      Loader(<<"t", "load">>, 1, FALSE, "NULL", "NULL", "NULL", SuffA),
      Loader(<<"u", "load">>, 0, FALSE, "NULL", "NULL", "NULL", SuffB),
      Loader(<<"v", "load">>, 1, FALSE, "NULL", "NULL", "NULL", <<>>),
      Loader(<<"rawload">>, 1, FALSE, "NULL", "NULL", "NULL", SuffA),
      Loader(<<"a", "load", "_buffer">>, 0, FALSE, "NULL", "A", "NULL", <<>>),
      Loader(<<"v", "load", "_buffer">>, 1, FALSE, "A", "NULL", "NULL", <<>>),
      Loader(<<"a", "load", "_source">>, 0, FALSE, "NULL", "NULL", "A", <<>>),
      Loader(<<"b", "load", "_source">>, 1, FALSE, "NULL", "NULL", "B", <<>>),
      Loader(<<"v", "load", "_source">>, 1, FALSE, "A", "NULL", "NULL", <<>>) }

SaveClasses ==
    { Saver(<<"a", "save">>, 0, FALSE, FALSE, SuffA),
      Saver(<<"b", "save">>, 1, FALSE, FALSE, SuffBA),
      Saver(<<"a", "save">>, 1, TRUE, FALSE, SuffA),
      Saver(<<"file", "save">>, 1, FALSE, TRUE, <<>>),
      Saver(<<"a", "save", "_buffer">>, 1, FALSE, FALSE, SuffA),
      Saver(<<"a", "save", "_target">>, 1, FALSE, FALSE, SuffA) }

Classes == LoadClasses \cup SaveClasses

\* What a discovery query leaves behind while it walks the classes: the calls
\* it made, in order, each with the class it was made on (0: none) and the
\* read position of the source at the time; the read position of the source;
\* the suffixes counted and collected by vips_foreign_get_suffixes.
NewWalk(pos) == [log |-> <<>>, pos |-> pos, n_suffs |-> 0, suffs |-> <<>>]

Event(ev, cls, pos) == [ev |-> ev, cls |-> cls, pos |-> pos]

Logged(st, ev, cls) == [st EXCEPT !.log = Append(@, Event(ev, cls, st.pos))]

Found(ret, st) == [ret |-> ret, st |-> st]

\* file_add_class, with blocked classes kept.
file_add_class_KeepsBlocked(classes, files, i) ==
    IF vips_isprefix(<<"rawload">>, classes[i].nickname) THEN files
    ELSE Append(files, i)

\* file_add_class(class, &files) on class i.
file_add_class(classes, files, i) ==
    IF classes[i].blocked THEN files
    ELSE IF vips_isprefix(<<"rawload">>, classes[i].nickname) THEN files
    ELSE Append(files, i)

\* file_compare, ascending.
file_compare_Ascending(a, b) == a.priority - b.priority

file_compare(a, b) == b.priority - a.priority

\* vips_class_map_all(g_type_from_name(base), file_add_class, &files): the
\* first n registered classes, those below base, in registration order.
RECURSIVE vips_class_map_all(_, _, _)
vips_class_map_all(classes, base, n) ==
    IF n = 0 THEN <<>>
    ELSE LET files == vips_class_map_all(classes, base, n - 1)
         IN  IF classes[n].base = base
             THEN file_add_class(classes, files, n)
             ELSE files

\* g_slist_sort(files, file_compare): a stable sort.
RECURSIVE SortedInsert(_, _, _)
SortedInsert(classes, sorted, i) ==
    IF sorted = <<>> THEN <<i>>
    ELSE IF file_compare(classes[Head(sorted)], classes[i]) <= 0
         THEN <<Head(sorted)>> \o SortedInsert(classes, Tail(sorted), i)
         ELSE <<i>> \o sorted

RECURSIVE g_slist_sort(_, _)
g_slist_sort(classes, files) ==
    IF files = <<>> THEN <<>>
    ELSE SortedInsert(classes,
                      g_slist_sort(classes, SubSeq(files, 1, Len(files) - 1)),
                      files[Len(files)])

\* is_a(filename), is_a_buffer(data, size): the method reads the content.
Sniff(method, content) == method = content

\* vips_source_rewind(source).
vips_source_rewind(st) == [st EXCEPT !.pos = 0]

\* is_a_source(source): the method reads from where the source stands, and
\* sees the start of the content only from position zero.
SniffSource(method, content, st) ==
    Found(st.pos = 0 /\ method = content, [st EXCEPT !.pos = @ + 1])

\* vips_foreign_find_load_sub, going on to the suffixes of a class whose
\* is_a() says no.
vips_foreign_find_load_sub_SuffixToo(classes, i, file, st) ==
    LET class == classes[i]
    IN  IF \/ g_str_has_suffix(class.nickname, "_buffer")
           \/ g_str_has_suffix(class.nickname, "_source")
        THEN Found(0, st)
        ELSE IF class.is_a # "NULL" /\ Sniff(class.is_a, file.entry)
        THEN Found(i, Logged(st, "is_a", i))
        ELSE IF class.suffs # <<>>
        THEN Found(IF vips_filename_suffix_match(file.name, class.suffs)
                   THEN i ELSE 0,
                   Logged(st, "suffix", i))
        ELSE Found(0, Logged(st, "warning", i))

\* vips_foreign_find_load_sub(load_class, filename).
vips_foreign_find_load_sub(classes, i, file, st) ==
    LET class == classes[i]
    IN  IF \/ g_str_has_suffix(class.nickname, "_buffer")
           \/ g_str_has_suffix(class.nickname, "_source")
        THEN Found(0, st)
        ELSE IF class.is_a # "NULL"
        THEN Found(IF Sniff(class.is_a, file.entry) THEN i ELSE 0,
                   Logged(st, "is_a", i))
        ELSE IF class.suffs # <<>>
        THEN Found(IF vips_filename_suffix_match(file.name, class.suffs)
                   THEN i ELSE 0,
                   Logged(st, "suffix", i))
        ELSE Found(0, Logged(st, "warning", i))

\* vips_foreign_find_load_buffer_sub, returning a class without the method.
vips_foreign_find_load_buffer_sub_NoMethod(classes, i, buf, st) ==
    LET class == classes[i]
    IN  IF ~g_str_has_suffix(class.nickname, "_buffer")
        THEN Found(0, st)
        ELSE IF class.is_a_buffer # "NULL"
        THEN Found(IF Sniff(class.is_a_buffer, buf.content) THEN i ELSE 0,
                   Logged(st, "is_a_buffer", i))
        ELSE Found(i, Logged(st, "warning", i))

\* vips_foreign_find_load_buffer_sub(load_class, &data, &size).
vips_foreign_find_load_buffer_sub(classes, i, buf, st) ==
    LET class == classes[i]
    IN  IF ~g_str_has_suffix(class.nickname, "_buffer")
        THEN Found(0, st)
        ELSE IF class.is_a_buffer # "NULL"
        THEN Found(IF Sniff(class.is_a_buffer, buf.content) THEN i ELSE 0,
                   Logged(st, "is_a_buffer", i))
        ELSE Found(0, Logged(st, "warning", i))

\* vips_foreign_find_load_source_sub, without the rewind.
vips_foreign_find_load_source_sub_NoRewind(classes, i, source, st) ==
    LET class == classes[i]
    IN  IF ~g_str_has_suffix(class.nickname, "_source")
        THEN Found(0, st)
        ELSE IF class.is_a_source # "NULL"
        THEN LET r == SniffSource(class.is_a_source, source.content,
                                  Logged(st, "is_a_source", i))
             IN  Found(IF r.ret THEN i ELSE 0, r.st)
        ELSE Found(0, Logged(st, "warning", i))

\* vips_foreign_find_load_source_sub(item, source).
vips_foreign_find_load_source_sub(classes, i, source, st) ==
    LET class == classes[i]
    IN  IF ~g_str_has_suffix(class.nickname, "_source")
        THEN Found(0, st)
        ELSE IF class.is_a_source # "NULL"
        THEN LET rewound == vips_source_rewind(Logged(st, "rewind", i))
                 r == SniffSource(class.is_a_source, source.content,
                                  Logged(rewound, "is_a_source", i))
             IN  Found(IF r.ret THEN i ELSE 0, r.st)
        ELSE Found(0, Logged(st, "warning", i))

\* vips_foreign_find_save_sub, without the skip of non-file savers.
vips_foreign_find_save_sub_AnyKind(classes, i, filename, st) ==
    LET class == classes[i]
    IN  IF class.suffs = <<>>
        THEN Found(0, Logged(st, "warning", i))
        ELSE Found(IF \E k \in 1..Len(class.suffs) :
                          vips_iscasepostfix(filename, class.suffs[k])
                   THEN i ELSE 0,
                   Logged(st, "suffix", i))

\* vips_foreign_find_save_sub(save_class, filename).
vips_foreign_find_save_sub(classes, i, filename, st) ==
    LET class == classes[i]
    IN  IF class.suffs = <<>>
        THEN Found(0, Logged(st, "warning", i))
        ELSE IF \/ g_str_has_suffix(class.nickname, "_buffer")
                \/ g_str_has_suffix(class.nickname, "_target")
        THEN Found(0, st)
        ELSE Found(IF \E k \in 1..Len(class.suffs) :
                          vips_iscasepostfix(filename, class.suffs[k])
                   THEN i ELSE 0,
                   Logged(st, "suffix", i))

\* vips_foreign_find_save_target_sub(save_class, suffix) and
\* vips_foreign_find_save_buffer_sub(save_class, suffix): tail is "_target"
\* or "_buffer".
FindSaveKindSub(classes, i, suffix, st, tail) ==
    LET class == classes[i]
        warned == IF ~class.abstract /\ class.suffs = <<>>
                  THEN Logged(st, "warning", i) ELSE st
    IN  IF /\ ~class.abstract
           /\ class.suffs # <<>>
           /\ g_str_has_suffix(class.nickname, tail)
        THEN Found(IF vips_filename_suffix_match(suffix, class.suffs)
                   THEN i ELSE 0,
                   Logged(warned, "suffix", i))
        ELSE Found(0, warned)

vips_foreign_find_save_target_sub(classes, i, suffix, st) ==
    FindSaveKindSub(classes, i, suffix, st, "_target")

vips_foreign_find_save_buffer_sub(classes, i, suffix, st) ==
    FindSaveKindSub(classes, i, suffix, st, "_buffer")

\* vips_foreign_get_suffixes_count_cb(save_class, &n_fields).
vips_foreign_get_suffixes_count_cb(classes, i, st) ==
    Found(0, [st EXCEPT !.n_suffs = @ + Len(classes[i].suffs)])

\* vips_foreign_get_suffixes_add_cb(save_class, &p).
vips_foreign_get_suffixes_add_cb(classes, i, st) ==
    Found(0, [st EXCEPT !.suffs = @ \o classes[i].suffs])

\* fn(item, a, b) for the callback vips_foreign_map is given.
Apply(fn, classes, i, a, st) ==
    CASE fn = "find_load_sub" -> vips_foreign_find_load_sub(classes, i, a, st)
      [] fn = "find_load_buffer_sub" ->
            vips_foreign_find_load_buffer_sub(classes, i, a, st)
      [] fn = "find_load_source_sub" ->
            vips_foreign_find_load_source_sub(classes, i, a, st)
      [] fn = "find_save_sub" -> vips_foreign_find_save_sub(classes, i, a, st)
      [] fn = "find_save_target_sub" ->
            vips_foreign_find_save_target_sub(classes, i, a, st)
      [] fn = "find_save_buffer_sub" ->
            vips_foreign_find_save_buffer_sub(classes, i, a, st)
      [] fn = "get_suffixes_count_cb" ->
            vips_foreign_get_suffixes_count_cb(classes, i, st)
      [] fn = "get_suffixes_add_cb" ->
            vips_foreign_get_suffixes_add_cb(classes, i, st)

\* vips_slist_map2(files, fn, a, b): fn on each item, up to the first that
\* returns non-NULL.
RECURSIVE vips_slist_map2(_, _, _, _, _)
vips_slist_map2(classes, files, fn, a, st) ==
    IF files = <<>> THEN Found(0, st)
    ELSE LET r == Apply(fn, classes, Head(files), a,
                        Logged(st, "visit", Head(files)))
         IN  IF r.ret # 0 THEN r
             ELSE vips_slist_map2(classes, Tail(files), fn, a, r.st)

\* vips_foreign_map(base, fn, a, b).
vips_foreign_map(classes, base, fn, a, st) ==
    vips_slist_map2(classes,
                    g_slist_sort(classes,
                                 vips_class_map_all(classes, base, Len(classes))),
                    fn, a, st)

\* What a query returns: the class (0: NULL), the error it set, its walk.
Answer(r, error) ==
    [ret |-> r.ret, error |-> IF r.ret = 0 THEN error ELSE "", st |-> r.st]

\* vips_existsf("%s", filename), vips_isdirf("%s", filename) on what the file
\* system holds under the name.
vips_existsf(entry) == entry # "none"

vips_isdirf(entry) == entry = "dir"

\* vips_foreign_find_load goes on without the existence test.
FindLoadNotExists_Skipped(entry) == FALSE

\* !vips_existsf("%s", filename) in vips_foreign_find_load.
FindLoadNotExists(entry) == ~vips_existsf(entry)

\* vips_foreign_find_load(name).
vips_foreign_find_load(classes, file) ==
    LET filename == vips__filename_split8(file.name)
        tested == Logged(NewWalk(0), "exists", 0)
        tested2 == Logged(tested, "isdir", 0)
    IN  IF FindLoadNotExists(file.entry)
        THEN Answer(Found(0, tested), "does not exist")
        ELSE IF vips_isdirf(file.entry)
        THEN Answer(Found(0, tested2), "is a directory")
        ELSE Answer(vips_foreign_map(classes, "VipsForeignLoad", "find_load_sub",
                                     [file EXCEPT !.name = filename], tested2),
                    "is not a known file format")

\* vips_foreign_find_load_buffer(data, size).
vips_foreign_find_load_buffer(classes, buf) ==
    Answer(vips_foreign_map(classes, "VipsForeignLoad", "find_load_buffer_sub",
                            buf, NewWalk(0)),
           "buffer is not in a known format")

\* vips_foreign_find_load_source(source).
vips_foreign_find_load_source(classes, source) ==
    Answer(vips_foreign_map(classes, "VipsForeignLoad", "find_load_source_sub",
                            source, NewWalk(source.pos)),
           "source is not in a known format")

\* vips_foreign_find_save(name).
vips_foreign_find_save(classes, name) ==
    Answer(vips_foreign_map(classes, "VipsForeignSave", "find_save_sub",
                            vips__filename_split8(name), NewWalk(0)),
           "is not a known file format")

\* vips_foreign_find_save_target(name).
vips_foreign_find_save_target(classes, name) ==
    Answer(vips_foreign_map(classes, "VipsForeignSave", "find_save_target_sub",
                            vips__filename_split8(name), NewWalk(0)),
           "is not a known target format")

\* vips_foreign_find_save_buffer(name).
vips_foreign_find_save_buffer(classes, name) ==
    Answer(vips_foreign_map(classes, "VipsForeignSave", "find_save_buffer_sub",
                            vips__filename_split8(name), NewWalk(0)),
           "is not a known buffer format")

\* vips_foreign_get_suffixes().
vips_foreign_get_suffixes(classes) ==
    LET counted == vips_foreign_map(classes, "VipsForeignSave",
                                    "get_suffixes_count_cb", 0, NewWalk(0))
    IN  Answer(vips_foreign_map(classes, "VipsForeignSave",
                                "get_suffixes_add_cb", 0, counted.st), "")

\* ------------------------------------------------- discovery query actions

\* The input of a query: the name given, what the file system holds under
\* its filename part ("none", "dir", or the content of the file), the content
\* of a buffer or source, and where the source stands.
Names ==
    { <<"x", ".", "a">>, <<"x", ".", "A">>, <<"x", ".", "b">>,
      <<"x", ".", "a", "[", "q", "]">>, <<"x">> }

Entries == {"none", "dir", "A", "B"}

Contents == {"A", "B"}

Input(name, entry, content, pos) ==
    [name |-> name, entry |-> entry, content |-> content, pos |-> pos]

NoInput == Input(<<>>, "none", "", 0)

\* No query is running on the registered classes.
RegIdle(classes) ==
    [classes |-> classes, pc |-> "idle", call |-> "none", input |-> NoInput,
     ret |-> 0, error |-> "", st |-> NewWalk(0)]

\* The registry once the query call on input has given answer.
Answered(call, input, answer) ==
    [reg EXCEPT !.pc = "done", !.call = call, !.input = input,
                !.ret = answer.ret, !.error = answer.error, !.st = answer.st]

FindLoad ==
    /\ reg.pc = "idle"
    /\ \E name \in Names, entry \in Entries :
        LET file == Input(name, entry, "", 0)
        IN  /\ reg' = Answered("find_load", file,
                               vips_foreign_find_load(reg.classes, file))
            /\ UNCHANGED <<arg, load, nops, cache, sslock, thr, sav, save, tiff>>

FindLoadBuffer ==
    /\ reg.pc = "idle"
    /\ \E content \in Contents :
        LET buf == Input(<<>>, "none", content, 0)
        IN  /\ reg' = Answered("find_load_buffer", buf,
                               vips_foreign_find_load_buffer(reg.classes, buf))
            /\ UNCHANGED <<arg, load, nops, cache, sslock, thr, sav, save, tiff>>

FindLoadSource ==
    /\ reg.pc = "idle"
    /\ \E content \in Contents, pos \in {0, 1} :
        LET source == Input(<<>>, "none", content, pos)
        IN  /\ reg' = Answered("find_load_source", source,
                               vips_foreign_find_load_source(reg.classes, source))
            /\ UNCHANGED <<arg, load, nops, cache, sslock, thr, sav, save, tiff>>

FindSave ==
    /\ reg.pc = "idle"
    /\ \E name \in Names :
        /\ reg' = Answered("find_save", Input(name, "none", "", 0),
                           vips_foreign_find_save(reg.classes, name))
        /\ UNCHANGED <<arg, load, nops, cache, sslock, thr, sav, save, tiff>>

FindSaveTarget ==
    /\ reg.pc = "idle"
    /\ \E name \in Names :
        /\ reg' = Answered("find_save_target", Input(name, "none", "", 0),
                           vips_foreign_find_save_target(reg.classes, name))
        /\ UNCHANGED <<arg, load, nops, cache, sslock, thr, sav, save, tiff>>

FindSaveBuffer ==
    /\ reg.pc = "idle"
    /\ \E name \in Names :
        /\ reg' = Answered("find_save_buffer", Input(name, "none", "", 0),
                           vips_foreign_find_save_buffer(reg.classes, name))
        /\ UNCHANGED <<arg, load, nops, cache, sslock, thr, sav, save, tiff>>

GetSuffixes ==
    /\ reg.pc = "idle"
    /\ reg' = Answered("get_suffixes", NoInput,
                       vips_foreign_get_suffixes(reg.classes))
    /\ UNCHANGED <<arg, load, nops, cache, sslock, thr, sav, save, tiff>>

\* The caller is done with the answer.
QueryReturn ==
    /\ reg.pc = "done"
    /\ reg' = RegIdle(reg.classes)
    /\ UNCHANGED <<arg, load, nops, cache, sslock, thr, sav, save, tiff>>

\* ------------------------------------------------------ saveable normaliser

BandFormats == {"UCHAR", "USHORT", "FLOAT"}

Codings == {"NONE", "LABQ", "RAD"}

Interpretations ==
    {"B_W", "GREY16", "sRGB", "RGB16", "CMYK", "XYZ", "LAB", "scRGB", "LABQ",
     "MULTIBAND", "HISTOGRAM"}

\* A VipsImage as the normaliser sees it; id tells the image objects of one
\* conversion apart (0: the image the caller passed in).
VImage(id, bands, format, coding, type) ==
    [id |-> id, Bands |-> bands, BandFmt |-> format, Coding |-> coding,
     Type |-> type]

\* vips_band_format_is8bit(format).
vips_band_format_is8bit(format) == format = "UCHAR"

\* vips_image_guess_interpretation(image): the Type field if it agrees with
\* the bands, format and coding of the image, else the interpretation these
\* suggest.
vips_image_guess_interpretation(im) ==
    LET sane ==
            CASE im.Type \in {"sRGB", "XYZ", "LAB", "scRGB"} -> im.Bands >= 3
              [] im.Type = "CMYK" -> im.Bands >= 4
              [] im.Type = "LABQ" -> im.Coding = "LABQ"
              [] im.Type = "RGB16" -> im.BandFmt # "UCHAR" /\ im.Bands >= 3
              [] im.Type = "GREY16" -> im.BandFmt # "UCHAR"
              [] im.Type = "MULTIBAND" -> FALSE
              [] OTHER -> TRUE
    IN  IF sane THEN im.Type
        ELSE IF im.Coding = "LABQ" THEN "LABQ"
        ELSE IF im.Coding = "RAD" THEN "sRGB"
        ELSE IF im.Bands <= 2
             THEN (IF im.BandFmt = "USHORT" THEN "GREY16" ELSE "B_W")
        ELSE IF im.Bands <= 4
             THEN (IF im.BandFmt = "USHORT" THEN "RGB16" ELSE "sRGB")
        ELSE "MULTIBAND"

\* The colour bands of an interpretation (0: none known).
ColourBands(type) ==
    CASE type \in {"B_W", "GREY16"} -> 1
      [] type \in {"sRGB", "RGB16", "XYZ", "LAB", "scRGB"} -> 3
      [] type = "CMYK" -> 4
      [] OTHER -> 0

\* vips_image_hasalpha(image).
vips_image_hasalpha(im) ==
    ColourBands(im.Type) > 0 /\ im.Bands > ColourBands(im.Type)

\* The image a library operation makes from im (an image of no bands: the
\* operation fails).  a is the colourspace, depth or format asked for, n
\* the number of bands.
Operation(op, a, n, im) ==
    LET from == vips_image_guess_interpretation(im)
        extra == IF im.Bands > ColourBands(from) THEN im.Bands - ColourBands(from)
                 ELSE 0
        none == VImage(im.id, 0, im.BandFmt, im.Coding, im.Type)
    IN  CASE op = "LabQ2sRGB" -> VImage(im.id, 3, "UCHAR", "NONE", "sRGB")
          [] op = "rad2float" -> VImage(im.id, 3, "FLOAT", "NONE", im.Type)
          [] op = "icc_import" -> VImage(im.id, 3 + extra, "FLOAT", "NONE", "XYZ")
          [] op = "icc_export" ->
                VImage(im.id, 4 + extra, IF a = "16" THEN "USHORT" ELSE "UCHAR",
                       "NONE", "CMYK")
          [] op = "colourspace" ->
                IF from = a THEN im
                ELSE IF ColourBands(from) = 0 THEN none
                ELSE VImage(im.id, ColourBands(a) + extra,
                            IF a \in {"RGB16", "GREY16"} THEN "USHORT" ELSE "UCHAR",
                            "NONE", a)
          [] op = "flatten" -> [im EXCEPT !.Bands = @ - 1]
          [] op = "extract_band" -> [im EXCEPT !.Bands = n]
          [] op = "cast" -> [im EXCEPT !.BandFmt = a]
          [] op = "Lab2LabQ" -> VImage(im.id, 4, "UCHAR", "LABQ", "LABQ")
          [] op = "float2rad" -> VImage(im.id, 4, "UCHAR", "RAD", im.Type)
          [] op = "image_decode" ->
                IF im.Coding = "LABQ" THEN VImage(im.id, 3, "FLOAT", "NONE", "LAB")
                ELSE IF im.Coding = "RAD"
                THEN VImage(im.id, 3, "FLOAT", "NONE", im.Type)
                ELSE im

\* A conversion under way: the image at the end of the chain, the references
\* the conversion holds on each image object (held[id + 1]), the operations
\* called, the call that is to fail (0: none), how it stands, and whether
\* the image vips_foreign_apply_saveable was given is a 16-bit one.
NewConversion(in, fail) ==
    [in |-> in, held |-> <<0>>, steps |-> <<>>, fail |-> fail, status |-> "run",
     sixteenbit |-> FALSE]

g_object_ref(cs, id) == [cs EXCEPT !.held[id + 1] = @ + 1]

g_object_unref(cs, id) == [cs EXCEPT !.held[id + 1] = @ - 1]

\* if (vips_op(in, &out, ...)) { g_object_unref(in); return -1; }
\* g_object_unref(in); in = out;
Call(cs, op, a, n) ==
    LET out == Operation(op, a, n, cs.in)
        called == [g_object_unref(cs, cs.in.id) EXCEPT
                      !.steps = Append(@, [op |-> op, a |-> a, n |-> n])]
    IN  IF cs.status # "run" THEN cs
        ELSE IF cs.fail = Len(cs.steps) + 1 \/ out.Bands = 0
        THEN [called EXCEPT !.status = "error"]
        ELSE [called EXCEPT !.in = [out EXCEPT !.id = Len(cs.held)],
                            !.held = Append(@, 1)]

\* The first fast path of vips__foreign_convert_saveable, for packed Lab only.
ConvertCodedDone_NoRad(in, coding) == in.Coding = "LABQ" /\ "LABQ" \in coding

\* For coded images, can this class save the coding we are in now?
ConvertCodedDone(in, coding) ==
    \/ in.Coding = "LABQ" /\ "LABQ" \in coding
    \/ in.Coding = "RAD" /\ "RAD" \in coding

\* For uncoded images, does the saver support ANY and this format?
ConvertAnyDone(in, saveable, format) ==
    /\ in.Coding = "NONE"
    /\ saveable = {"ANY"}
    /\ format[in.BandFmt] = in.BandFmt

\* max_bands, with no band more for a saver that takes alpha.
max_bands_IgnoresAlpha(in, saveable) ==
    IF saveable = {"ANY"} THEN in.Bands
    ELSE ColourBands(vips_image_guess_interpretation(in))

\* max_bands in vips__foreign_convert_saveable.
max_bands(in, saveable) ==
    IF saveable = {"ANY"} THEN in.Bands
    ELSE IF "ALPHA" \in saveable
    THEN ColourBands(vips_image_guess_interpretation(in)) + 1
    ELSE ColourBands(vips_image_guess_interpretation(in))

\* The value vips_cast makes of the value v of a band element, for the
\* 8-bit and 16-bit unsigned formats: with shift the value moves by 8 bits,
\* without it is clipped to the range of the new format.
vips_cast_value(v, from, to, shift) ==
    IF from = "USHORT" /\ to = "UCHAR"
    THEN (IF shift = 1 THEN v \div 256 ELSE IF v > 255 THEN 255 ELSE v)
    ELSE IF from = "UCHAR" /\ to = "USHORT"
    THEN (IF shift = 1 THEN v * 256 ELSE v)
    ELSE v

\* needs_shift, for a saver that never asks for a shift.
needs_shift_Never(in, format) == 0

\* needs_shift in vips__foreign_convert_saveable (1: shift).
needs_shift(in, format) ==
    IF /\ ~vips_band_format_is8bit(in.BandFmt)
       /\ vips_band_format_is8bit(format[in.BandFmt])
    THEN 1 ELSE 0

\* The colour model vips_foreign_apply_saveable goes to, with CMYK tried
\* before RGB.
ApplyModel_CMYKFirst(saveable) ==
    IF "CMYK" \in saveable THEN "CMYK"
    ELSE IF "RGB" \in saveable THEN "RGB"
    ELSE IF "MONO" \in saveable THEN "MONO"
    ELSE "none"

\* The colour model vips_foreign_apply_saveable goes to for an image it does
\* not keep: the first of RGB, CMYK and mono the saver supports.
ApplyModel(saveable) ==
    IF "RGB" \in saveable THEN "RGB"
    ELSE IF "CMYK" \in saveable THEN "CMYK"
    ELSE IF "MONO" \in saveable THEN "MONO"
    ELSE "none"

\* The flatten test, for every saver.
needs_flatten_IgnoresSaveable(in, saveable) ==
    in.Coding = "NONE" /\ vips_image_hasalpha(in)

\* Flatten alpha, if the saver does not support it.
needs_flatten(in, saveable) ==
    /\ in.Coding = "NONE"
    /\ vips_image_hasalpha(in)
    /\ "ALPHA" \notin saveable

\* *ready = in; return 0; in vips_foreign_apply_saveable.
Ready(cs) == [cs EXCEPT !.status = IF @ = "run" THEN "ready" ELSE @]

\* The statements of vips_foreign_apply_saveable(in, &ready, saveable), one
\* stage each; a stage does nothing once the function has returned.
ApplySaveableStage(stage, cs, saveable) ==
    LET in == cs.in
    IN  CASE stage = "apply_ref" ->
                [g_object_ref(cs, in.id) EXCEPT !.sixteenbit = in.BandFmt = "USHORT"]
          [] stage = "apply_any" -> IF saveable = {"ANY"} THEN Ready(cs) ELSE cs
          [] stage = "apply_labq" ->
                IF in.Coding = "LABQ" THEN Call(cs, "LabQ2sRGB", "", 0) ELSE cs
          [] stage = "apply_rad" ->
                IF in.Coding = "RAD" THEN Call(cs, "rad2float", "", 0) ELSE cs
          [] stage = "apply_mono" ->
                IF "MONO" \in saveable /\ in.Bands < 3 THEN Ready(cs) ELSE cs
          [] stage = "apply_cmyk" ->
                IF vips_image_guess_interpretation(in) = "CMYK" /\ in.Bands >= 4
                THEN IF "CMYK" \in saveable THEN Ready(cs)
                     ELSE Call(cs, "icc_import", "XYZ", 0)
                ELSE cs
          [] stage = "apply_model" ->
                IF ApplyModel(saveable) = "RGB"
                THEN Ready(Call(cs, "colourspace",
                                IF cs.sixteenbit THEN "RGB16" ELSE "sRGB", 0))
                ELSE IF ApplyModel(saveable) = "CMYK"
                THEN Ready(Call(cs, "icc_export",
                                IF cs.sixteenbit THEN "16" ELSE "8", 0))
                ELSE IF ApplyModel(saveable) = "MONO"
                THEN Ready(Call(cs, "colourspace",
                                IF cs.sixteenbit THEN "GREY16" ELSE "B_W", 0))
                ELSE [cs EXCEPT !.status = "error"]

\* The statements of vips__foreign_convert_saveable(in, &ready, saveable,
\* format, coding, background) after the call of vips_foreign_apply_saveable.
ConvertSaveableStage(stage, cs, saveable, format, coding) ==
    LET in == cs.in
    IN  CASE stage = "flatten" ->
                IF needs_flatten(in, saveable)
                THEN Call(cs, "flatten", "background", 0) ELSE cs
          [] stage = "extract_band" ->
                IF /\ in.Coding = "NONE"
                   /\ max_bands(in, saveable) > 0
                   /\ in.Bands > max_bands(in, saveable)
                THEN Call(cs, "extract_band", "0", max_bands(in, saveable)) ELSE cs
          [] stage = "cast" ->
                IF in.Coding = "NONE"
                THEN Call(cs, "cast", format[in.BandFmt], needs_shift(in, format))
                ELSE cs
          [] stage = "recode" ->
                IF in.Coding \in coding THEN cs
                ELSE IF "LABQ" \in coding THEN Call(cs, "Lab2LabQ", "", 0)
                ELSE IF "RAD" \in coding THEN Call(cs, "float2rad", "", 0)
                ELSE IF "NONE" \in coding THEN Call(cs, "image_decode", "", 0)
                ELSE cs
          [] stage = "ready" -> [cs EXCEPT !.status = "ok"]

\* One stage of a conversion for the saver t, on the conversion so far.
Stage(stage, cs, t) ==
    CASE stage = "ref" -> g_object_ref(cs, cs.in.id)
      [] stage = "done" ->
            IF ConvertCodedDone(cs.in, t.coding)
               \/ ConvertAnyDone(cs.in, t.saveable, t.format)
            THEN [cs EXCEPT !.status = "ok"] ELSE cs
      [] stage = "applied" ->
            IF cs.status = "ok" THEN cs
            ELSE [g_object_unref(cs, 0) EXCEPT
                     !.status = IF @ = "ready" THEN "run" ELSE @]
      [] cs.status # "run" -> cs
      [] stage \in {"apply_ref", "apply_any", "apply_labq", "apply_rad",
                    "apply_mono", "apply_cmyk", "apply_model"} ->
            ApplySaveableStage(stage, cs, t.saveable)
      [] OTHER -> ConvertSaveableStage(stage, cs, t.saveable, t.format, t.coding)

\* The stages run one after the other, each on the outcome of the one before.
RECURSIVE Run(_, _, _)
Run(stages, cs, t) ==
    IF stages = <<>> THEN cs
    ELSE CHOOSE out \in {Run(Tail(stages), next, t) :
                            next \in {Stage(Head(stages), cs, t)}} : TRUE

\* vips_foreign_apply_saveable(in, &ready, saveable).
vips_foreign_apply_saveable ==
    <<"apply_ref", "apply_any", "apply_labq", "apply_rad", "apply_mono",
      "apply_cmyk", "apply_model">>

\* vips__foreign_convert_saveable(in, &ready, saveable, format, coding,
\* background).
vips__foreign_convert_saveable(cs, saveable, format, coding) ==
    Run(<<"ref", "done">> \o vips_foreign_apply_saveable
            \o <<"applied", "flatten", "extract_band", "cast", "recode", "ready">>,
        cs, [saveable |-> saveable, format |-> format, coding |-> coding])

\* ------------------------------------------------------- normaliser actions

\* The savers: what they declare as saveable, their format[] tables and the
\* codings they take.
Saveables ==
    { {"ANY"}, {"MONO"}, {"RGB"}, {"CMYK"}, {"ALPHA"}, {"MONO", "RGB"},
      {"RGB", "ALPHA"}, {"MONO", "ALPHA"}, {"MONO", "RGB", "CMYK"},
      {"MONO", "RGB", "CMYK", "ALPHA"} }

FormatTables ==
    { [f \in BandFormats |-> f],
      [f \in BandFormats |-> "UCHAR"],
      [f \in BandFormats |-> IF f = "UCHAR" THEN "UCHAR" ELSE "USHORT"],
      [f \in BandFormats |-> "FLOAT"] }

CodingSets == {{"NONE"}, {"LABQ"}, {"RAD"}, {"NONE", "LABQ"}, {"NONE", "RAD"}}

\* The images handed to a saver.
SourceImages ==
    {VImage(0, b, f, "NONE", t) :
        b \in 1..MaxSrcBands, f \in BandFormats,
        t \in {"B_W", "GREY16", "sRGB", "RGB16", "CMYK", "MULTIBAND",
               "HISTOGRAM"}}
    \cup {VImage(0, 4, "UCHAR", "LABQ", "LABQ"),
          VImage(0, 4, "UCHAR", "RAD", "scRGB")}

\* The call of a conversion that fails in the library (0: none does).
FailPoints == 0..MaxFail

SavIdle ==
    [pc |-> "idle", round |-> 0, in |-> VImage(0, 1, "UCHAR", "NONE", "B_W"),
     saveable |-> {}, format |-> [f \in BandFormats |-> f], coding |-> {},
     cs |-> NewConversion(VImage(0, 1, "UCHAR", "NONE", "B_W"), 0)]

\* A conversion that is over; fail stays only if a call was made to fail.
Outcome(cs) == [cs EXCEPT !.fail = IF cs.status = "ok" THEN 0 ELSE @]

\* A saver converts the image it was given.
ConvertSaveable ==
    /\ sav.pc = "idle"
    /\ \E in \in SourceImages, saveable \in Saveables, format \in FormatTables,
          coding \in CodingSets, fail \in FailPoints :
        /\ sav' = [pc |-> "done", round |-> 1, in |-> in, saveable |-> saveable,
                   format |-> format, coding |-> coding,
                   cs |-> Outcome(vips__foreign_convert_saveable(
                             NewConversion(in, fail), saveable, format, coding))]
        /\ UNCHANGED <<arg, load, nops, cache, sslock, thr, reg, save, tiff>>

\* The image a conversion made is converted again for the same saver.
ConvertSaveableAgain ==
    /\ sav.pc = "done"
    /\ sav.round = 1
    /\ sav.cs.status = "ok"
    /\ sav' = [sav EXCEPT
                  !.round = 2,
                  !.in = [sav.cs.in EXCEPT !.id = 0],
                  !.cs = vips__foreign_convert_saveable(
                            NewConversion([sav.cs.in EXCEPT !.id = 0], 0),
                            sav.saveable, sav.format, sav.coding)]
    /\ UNCHANGED <<arg, load, nops, cache, sslock, thr, reg, save, tiff>>

\* The saver is done with the image.
ConvertReturn ==
    /\ sav.pc = "done"
    /\ sav' = SavIdle
    /\ UNCHANGED <<arg, load, nops, cache, sslock, thr, reg, save, tiff>>

\* ----------------------------------------------------------- save, metadata

\* The names of image fields, as sequences of words: VIPS_META_EXIF_NAME,
\* VIPS_META_XMP_NAME, VIPS_META_IPTC_NAME, VIPS_META_ICC_NAME,
\* VIPS_META_IMAGEDESCRIPTION, a png comment, a magick profile, one more
\* blob, and VIPS_META_LOADER, VIPS_META_PAGE_HEIGHT, VIPS_META_RESOLUTION_UNIT
\* and VIPS_META_SEQUENTIAL.
MetadataFields ==
    {<<"exif", "-data">>, <<"xmp", "-data">>, <<"iptc", "-data">>,
     <<"icc-profile", "-data">>, <<"image-description">>,
     <<"png-comment-", "0">>, <<"magickprofile-", "8bim">>,
     <<"jpeg-thumbnail", "-data">>}

HeaderFields ==
    {<<"vips-loader">>, <<"page-height">>, <<"resolution-unit">>,
     <<"vips-sequential">>}

\* VipsForeignKeep: VIPS_FOREIGN_KEEP_ALL has every flag,
\* VIPS_FOREIGN_KEEP_NONE none.
KeepAll == {"EXIF", "XMP", "IPTC", "ICC", "OTHER"}

\* The metadata of an image: the fields it has, what the profile in
\* icc-profile-data is like ("none": no such field; "notblob": the field is
\* not a blob), and the value of page-height (0: no such field).
Metadata(fields, icc, page_height) ==
    [fields |-> fields, icc |-> icc, page_height |-> page_height]

\* vips_image_remove(image, field): the image without the field.
vips_image_remove(image, field) ==
    [image EXCEPT
        !.fields = @ \ {field},
        !.icc = IF field = <<"icc-profile", "-data">> THEN "none" ELSE @,
        !.page_height = IF field = <<"page-height">> THEN 0 ELSE @]

\* Mutant: the test of the name of the field is left out.
vips_foreign_save_remove_metadata_AnyName(field, keep) ==
    ~ \/ field = <<"exif", "-data">> /\ "EXIF" \in keep
      \/ field = <<"xmp", "-data">> /\ "XMP" \in keep
      \/ field = <<"iptc", "-data">> /\ "IPTC" \in keep
      \/ field = <<"icc-profile", "-data">> /\ "ICC" \in keep
      \/ "OTHER" \in keep

\* vips_foreign_save_remove_metadata(image, field, value, &keep): TRUE if
\* the field is removed from the image.
vips_foreign_save_remove_metadata(field, keep) ==
    /\ \/ vips_isprefix(<<"png-comment-">>, field)
       \/ vips_isprefix(<<"magickprofile-">>, field)
       \/ field = <<"image-description">>
       \/ g_str_has_suffix(field, "-data")
    /\ ~ \/ field = <<"exif", "-data">> /\ "EXIF" \in keep
         \/ field = <<"xmp", "-data">> /\ "XMP" \in keep
         \/ field = <<"iptc", "-data">> /\ "IPTC" \in keep
         \/ field = <<"icc-profile", "-data">> /\ "ICC" \in keep
         \/ "OTHER" \in keep

\* vips_image_map(in, vips_foreign_save_remove_metadata, &keep): the
\* callback is run on every field of the image, one after the other.
RECURSIVE vips_image_map(_, _, _)
vips_image_map(image, fields, keep) ==
    IF fields = {} THEN image
    ELSE LET field == CHOOSE f \in fields : TRUE
         IN  vips_image_map(
                 IF vips_foreign_save_remove_metadata(field, keep)
                 THEN vips_image_remove(image, field) ELSE image,
                 fields \ {field}, keep)

\* vips__exif_update(image): the EXIF block is rebuilt from the tags of the
\* image and set on it.
vips__exif_update(image) ==
    [image EXCEPT !.fields = @ \cup {<<"exif", "-data">>}]

\* vips_image_get_blob(in, VIPS_META_ICC_NAME, &data, &length) returns 0.
vips_image_get_blob(image) == image.icc \in {"compatible", "incompatible"}

\* vips_icc_is_compatible_profile(in, data, length).
vips_icc_is_compatible_profile(image) == image.icc = "compatible"

\* The profile test of vips__foreign_update_metadata, for every image.
DropsProfile_Never(image, keep) == FALSE

\* The profile of the image is dropped: ICC is kept, the field is there, it
\* is a blob and it is not compatible with the image.
DropsProfile(image, keep) ==
    /\ "ICC" \in keep
    /\ <<"icc-profile", "-data">> \in image.fields
    /\ vips_image_get_blob(image)
    /\ ~vips_icc_is_compatible_profile(image)

\* vips__foreign_update_metadata(in, keep): the image after it, and "error"
\* for -1 (exif: what vips__exif_update returns).
vips__foreign_update_metadata(image, keep, exif) ==
    LET rebuilt == IF "EXIF" \in keep THEN vips__exif_update(image) ELSE image
        filtered == IF keep # KeepAll
                    THEN vips_image_map(rebuilt, rebuilt.fields, keep)
                    ELSE rebuilt
        checked == IF DropsProfile(filtered, keep)
                   THEN vips_image_remove(filtered, <<"icc-profile", "-data">>)
                   ELSE filtered
    IN  IF "EXIF" \in keep /\ exif = "error"
        THEN [image |-> image, status |-> "error"]
        ELSE [image |-> checked, status |-> "ok"]

\* save->keep as vips_foreign_save_build sets it, for strip alone.
SaveKeep_NoProfile(a) ==
    IF a.strip # "unset" /\ ~a.keep_isset
    THEN (IF a.strip = "TRUE" THEN {} ELSE KeepAll)
    ELSE a.keep

\* save->keep as vips_foreign_save_build sets it from the arguments keep,
\* strip and profile ("unset": the argument was not given; a keep that was
\* not given is VIPS_FOREIGN_KEEP_ALL, from vips_foreign_save_init).
SaveKeep(a) ==
    LET keep == IF a.strip # "unset" /\ ~a.keep_isset
                THEN (IF a.strip = "TRUE" THEN {} ELSE KeepAll)
                ELSE a.keep
    IN  IF "ICC" \notin keep /\ a.profile # "unset"
        THEN keep \cup {"ICC"} ELSE keep

\* vips_copy(ready, &x, NULL), for a copy that is the image itself.
vips_copy_Same(images, ready) == [images |-> images, x |-> ready]

\* vips_copy(ready, &x, NULL): a new image with the fields of ready.
vips_copy(images, ready) ==
    [images |-> Append(images, images[ready]), x |-> Len(images) + 1]

\* The images a saver is given (the shape, for the normaliser) and the
\* savers (saveable, format table, coding): one that returns the image
\* itself, one that converts it, one that fails.
SaveTargets ==
    {[in |-> VImage(0, 3, "UCHAR", "NONE", "sRGB"), saveable |-> s,
      format |-> [f \in BandFormats |-> f], coding |-> {"NONE"}] :
        s \in {{"ANY"}, {"MONO"}, {"ALPHA"}}}

\* The metadata of the images a saver is given.
SaveImages ==
    {Metadata(HeaderFields \ {<<"page-height">>}, "none", 0)}
    \cup {Metadata(HeaderFields \cup m, icc, 1) :
             m \in {MetadataFields,
                    {<<"exif", "-data">>, <<"icc-profile", "-data">>},
                    {<<"icc-profile", "-data">>, <<"png-comment-", "0">>}},
             icc \in {"compatible", "incompatible", "notblob"}}
    \cup {Metadata(HeaderFields \cup m, "none", 1) :
             m \in {MetadataFields \ {<<"icc-profile", "-data">>},
                    {<<"xmp", "-data">>, <<"iptc", "-data">>,
                     <<"image-description">>}}}

\* The arguments of a save: keep, strip, profile, page_height, and what the
\* library calls made for it return.
SaveArgs ==
    {a \in [keep : SUBSET KeepAll,
            keep_isset : BOOLEAN,
            strip : {"unset", "TRUE", "FALSE"},
            profile : {"unset", "set"},
            page_height : {0, 2},
            exif : {"ok", "error"},
            copy : {"ok", "error"}] :
        ~a.keep_isset => a.keep = KeepAll}

SaveIdle ==
    [pc |-> "idle", a |-> [keep |-> KeepAll, keep_isset |-> FALSE,
                          strip |-> "unset",
                          profile |-> "unset", page_height |-> 0,
                          exif |-> "ok", copy |-> "ok"],
     keep |-> KeepAll, images |-> <<>>, before |-> <<>>, ready |-> 0,
     status |-> "ok", at |-> ""]

\* vips_foreign_save_build(object) for a saver of the target t on an image
\* of the metadata m: images[1] is save->in, ready the place of save->ready
\* in images (0: NULL), before the image save->in was, at the call that
\* made the build fail.
SaveBuilt(a, t, m) ==
    LET keep == SaveKeep(a)
        cs == vips__foreign_convert_saveable(NewConversion(t.in, 0),
                                             t.saveable, t.format, t.coding)
        images == IF cs.in.id = 0 THEN <<m>> ELSE <<m, m>>
        ready == Len(images)
        copied == vips_copy(images, ready)
        updated == vips__foreign_update_metadata(copied.images[copied.x], keep,
                                                 a.exif)
        paged == IF a.page_height # 0
                 THEN [updated.image EXCEPT
                          !.fields = @ \cup {<<"page-height">>},
                          !.page_height = a.page_height]
                 ELSE updated.image
        new == [pc |-> "built", a |-> a, keep |-> keep, before |-> <<m>>]
    IN  IF cs.status # "ok"
        THEN new @@ [images |-> <<m>>, ready |-> 0, status |-> "error",
                     at |-> "vips__foreign_convert_saveable"]
        ELSE IF a.copy = "error"
        THEN new @@ [images |-> images, ready |-> 0, status |-> "error",
                     at |-> "vips_copy"]
        ELSE IF updated.status = "error"
        THEN new @@ [images |-> copied.images, ready |-> 0, status |-> "error",
                     at |-> "vips__foreign_update_metadata"]
        ELSE new @@ [images |-> [copied.images EXCEPT ![copied.x] = paged],
                     ready |-> copied.x, status |-> "ok", at |-> ""]

vips_foreign_save_build ==
    /\ save.pc = "idle"
    /\ \E a \in SaveArgs, t \in SaveTargets, m \in SaveImages :
          save' = SaveBuilt(a, t, m)
    /\ UNCHANGED <<arg, load, nops, cache, sslock, thr, reg, sav, tiff>>

\* vips_foreign_save_dispose(gobject): the save is over.
vips_foreign_save_dispose ==
    /\ save.pc = "built"
    /\ save' = SaveIdle
    /\ UNCHANGED <<arg, load, nops, cache, sslock, thr, reg, sav, tiff>>

\* ----------------------------------------------------------------- tiffsave

\* Type promotion for jpeg-in-tiff save: just always go to uchar.
bandfmt_jpeg == [f \in BandFormats |-> "UCHAR"]

\* The arguments of a tiffsave (a resunit, xres or yres that was not given
\* has the value of vips_foreign_save_tiff_init), the resolution of the
\* image in pixels/mm, its resolution-unit field (type "none": no such
\* field; p: the string, in words) and the library call that fails in a
\* conversion (0: none).
TiffArgs ==
    {a \in [compression : {"NONE", "JPEG"},
            resunit_isset : BOOLEAN, resunit : {"CM", "INCH"},
            xres_isset : BOOLEAN, xres : {1, 5},
            yres_isset : BOOLEAN, yres : {1, 7},
            Xres : {2, 3}, Yres : {4},
            unit : {[type |-> "none", p |-> <<>>], [type |-> "int", p |-> <<>>],
                    [type |-> "string", p |-> <<"in">>],
                    [type |-> "string", p |-> <<"in", "ch">>],
                    [type |-> "string", p |-> <<"cm">>]},
            fail : FailPoints] :
        /\ ~a.resunit_isset => a.resunit = "CM"
        /\ a.xres_isset <=> a.xres = 5
        /\ a.yres_isset <=> a.yres = 7}

TiffIdle ==
    [pc |-> "idle", status |-> "ok", at |-> "",
     in |-> VImage(0, 1, "UCHAR", "NONE", "B_W"),
     ready |-> VImage(0, 1, "UCHAR", "NONE", "B_W"),
     a |-> [compression |-> "NONE", resunit_isset |-> FALSE, resunit |-> "CM",
            xres_isset |-> FALSE, xres |-> 1, yres_isset |-> FALSE, yres |-> 1,
            Xres |-> 2, Yres |-> 4, unit |-> [type |-> "none", p |-> <<>>],
            fail |-> 0],
     resunit |-> "CM", xres |-> 0, yres |-> 0]

\* vips_foreign_save_tiff_build(object): the parent build normalises
\* save->in for the class (saveable any, the default format table, coding
\* none and LABQ), jpeg compression normalises the result again, and
\* vips__tiff_write_target is given ready, resunit, xres and yres (xres and
\* yres are kept in tenths: 254 for 25.4).
vips_foreign_save_tiff_build ==
    /\ tiff.pc = "idle"
    /\ \E a \in TiffArgs, in \in SourceImages :
          LET coding == {"NONE", "LABQ"}
              parent == vips__foreign_convert_saveable(
                            NewConversion(in, a.fail), {"ANY"},
                            [f \in BandFormats |-> f], coding)
              jpeg == vips__foreign_convert_saveable(
                          NewConversion([parent.in EXCEPT !.id = 0], a.fail),
                          {"MONO", "RGB", "CMYK"}, bandfmt_jpeg, coding)
              ready == IF a.compression = "JPEG" THEN jpeg.in ELSE parent.in
              resunit == IF /\ ~a.resunit_isset
                            /\ a.unit.type # "none"
                            /\ a.unit.type = "string"
                            /\ vips_isprefix(<<"in">>, a.unit.p)
                         THEN "INCH" ELSE a.resunit
              xres == IF a.xres_isset THEN a.xres ELSE a.Xres
              yres == IF a.yres_isset THEN a.yres ELSE a.Yres
              scale == IF a.resunit = "INCH" THEN 254 ELSE 100
              new == [pc |-> "built", a |-> a, in |-> in]
              failed(at) == new @@ [status |-> "error", at |-> at,
                                    ready |-> in, resunit |-> "CM",
                                    xres |-> 0, yres |-> 0]
          IN  tiff' =
                IF parent.status # "ok"
                THEN failed("vips_foreign_save_build")
                ELSE IF a.compression = "JPEG" /\ jpeg.status # "ok"
                THEN failed("vips__foreign_convert_saveable")
                ELSE new @@ [status |-> "ok", at |-> "", ready |-> ready,
                             resunit |-> resunit, xres |-> xres * scale,
                             yres |-> yres * scale]
    /\ UNCHANGED <<arg, load, nops, cache, sslock, thr, reg, sav, save>>

\* vips_foreign_save_tiff_dispose(gobject): the save is over.
vips_foreign_save_tiff_dispose ==
    /\ tiff.pc = "built"
    /\ tiff' = TiffIdle
    /\ UNCHANGED <<arg, load, nops, cache, sslock, thr, reg, sav, save>>

\* ---------------------------------------------------------- specifications

\* The state before any load was asked for: the request is one of args, the
\* threads in running can act, and ops load objects can still be constructed
\* (the others count as spent).
InitState(args, running, ops) ==
    /\ arg \in args
    /\ load = [o \in Ops |-> NewLoad]
    /\ nops = MaxOps - ops
    /\ cache = 0
    /\ sslock = [o \in Ops |-> 0]
    /\ thr = [t \in Threads |->
                IF t \in running THEN IdleThread ELSE [IdleThread EXCEPT !.pc = "off"]]

\* The requests the concurrent specification runs: a handler with a ->load()
\* that can read top to bottom, default memory/disc/revalidate arguments,
\* cached (random access) or not (sequential access), and every decoded shape.
ConcArgs ==
    {a \in AllArgs :
        /\ a.get_flags = {"SEQUENTIAL"}
        /\ a.class_load
        /\ a.class_flags = {}
        /\ a.access \in {"RANDOM", "SEQUENTIAL"}
        /\ ~a.memory /\ a.disc /\ ~a.revalidate
        /\ a.decoded \in DecodedShapes(a.header)
        /\ a.disc_threshold = 4}

Init == InitState(ConcArgs, Threads, MaxOps) /\ reg = RegIdle(<<>>) /\ sav = SavIdle /\ save = SaveIdle /\ tiff = TiffIdle

Next ==
    \/ \E t \in Threads : vips_cache_operation_build(t)
    \/ \E t \in Threads : Unref(t)
    \/ \E t \in Threads : vips__region_start(t)
    \/ \E t \in Threads : vips_foreign_load_start(t)
    \/ \E t \in Threads : vips_foreign_load_start_loaded(t)
    \/ \E o \in Ops, which \in {"out", "real"} : vips_foreign_load_invalidate(o, which)

Spec == Init /\ [][Next]_vars

\* Every request, with one caller thread: the build and backing-store rules.
BuildArgs == {a \in AllArgs : a.decoded = a.header}

InitBuild == InitState(BuildArgs, {1}, BuildOps) /\ reg = RegIdle(<<>>) /\ sav = SavIdle /\ save = SaveIdle /\ tiff = TiffIdle

SpecBuild == InitBuild /\ [][Next]_vars

\* The discovery queries, on every list of at most MaxClasses registered
\* classes; no load is under way.
Registries == UNION {[1..n -> Classes] : n \in 0..MaxClasses}

InitRegistry ==
    /\ InitState({CHOOSE a \in ConcArgs : TRUE}, {}, 0)
    /\ reg \in {RegIdle(classes) : classes \in Registries}
    /\ sav = SavIdle
    /\ save = SaveIdle /\ tiff = TiffIdle

NextRegistry ==
    \/ FindLoad
    \/ FindLoadBuffer
    \/ FindLoadSource
    \/ FindSave
    \/ FindSaveTarget
    \/ FindSaveBuffer
    \/ GetSuffixes
    \/ QueryReturn

SpecRegistry == InitRegistry /\ [][NextRegistry]_vars

\* The normaliser, on every source image and saver; no load and no query is
\* under way.
InitSave ==
    /\ InitState({CHOOSE a \in ConcArgs : TRUE}, {}, 0)
    /\ reg = RegIdle(<<>>)
    /\ sav = SavIdle
    /\ save = SaveIdle /\ tiff = TiffIdle

NextSave ==
    \/ ConvertSaveable
    \/ ConvertSaveableAgain
    \/ ConvertReturn

SpecSave == InitSave /\ [][NextSave]_vars

\* The build of a save operation, on every image, saver and argument list
\* of the model; no load, no query and no other conversion is under way.
InitMeta ==
    /\ InitState({CHOOSE a \in ConcArgs : TRUE}, {}, 0)
    /\ reg = RegIdle(<<>>)
    /\ sav = SavIdle
    /\ save = SaveIdle /\ tiff = TiffIdle

NextMeta ==
    \/ vips_foreign_save_build
    \/ vips_foreign_save_dispose

SpecMeta == InitMeta /\ [][NextMeta]_vars

\* The build of a TIFF save, on every image and argument list of the model;
\* nothing else is under way.
InitTiff ==
    /\ InitState({CHOOSE a \in ConcArgs : TRUE}, {}, 0)
    /\ reg = RegIdle(<<>>)
    /\ sav = SavIdle
    /\ save = SaveIdle
    /\ tiff = TiffIdle

NextTiff ==
    \/ vips_foreign_save_tiff_build
    \/ vips_foreign_save_tiff_dispose

SpecTiff == InitTiff /\ [][NextTiff]_vars

\* ------------------------------------------------------------------ claims

\* Thread t is inside the start function of load o.
InStart(t, o) == thr[t].cur = o /\ thr[t].pc \in {"start", "load"}

Live(o) == load[o].life = "built"

\* C1: under every interleaving of the threads that ask the output image of
\* one load for pixels, the handler's ->load() runs at most once on it.
C1_LoadAtMostOnce == \A o \in Ops : load[o].load_calls <= 1

\* C1 witness: two threads hold the same image, its one decode is over, and
\* the second thread is in the start function.
C1_Witness ==
    \E o \in Ops, t \in Threads, u \in Threads :
        /\ t # u /\ thr[t].cur = o /\ thr[u].cur = o
        /\ load[o].load_calls = 1 /\ load[o].decode = "ok"
        /\ thr[u].pc = "start"

\* C2: while a decode is in flight no other thread is inside the start
\* function and no region on the backing image has been handed out; a region
\* is only ever handed out once the decode has finished without error.
C2_NoRegionBeforeDecoded ==
    \A o \in Ops :
        /\ load[o].decode = "running" =>
              /\ load[o].seq # "region"
              /\ \E t \in Threads : thr[t].pc = "load" /\ thr[t].cur = o /\ sslock[o] = t
              /\ \A u \in Threads : InStart(u, o) => sslock[o] = u
        /\ load[o].seq = "region" =>
              /\ load[o].decode = "ok"
              /\ ~load[o].error
              /\ load[o].real # NullImage

\* C2 witness: a decode is in flight while a second thread holds the same
\* output image.
C2_Witness ==
    \E o \in Ops, t \in Threads, u \in Threads :
        /\ t # u /\ thr[t].cur = o /\ thr[u].cur = o
        /\ thr[t].pc = "load" /\ load[o].decode = "running"

\* C3: once the error flag of a load is set it stays set for as long as the
\* load lives, ->load() is not called again, and every later return of the
\* start function is NULL.
C3_FailedIsPermanent ==
    [][\A o \in Ops :
          (load[o].error /\ load'[o].life = "built") =>
              /\ load'[o].error
              /\ load'[o].load_calls = load[o].load_calls
              /\ load'[o].decode = load[o].decode
              /\ load'[o].seq = "NULL"]_vars

\* C3 witness: a thread asks a failed load for pixels again.
C3_Witness ==
    \E o \in Ops, t \in Threads :
        load[o].error /\ thr[t].cur = o /\ thr[t].pc = "start"

\* C4: the start function hands out a region only if ->load() succeeded and
\* the decoded image has the header's Xsize, Ysize, Bands, Coding and BandFmt;
\* after a decode error, or a decode that differs in any of the five fields,
\* it returned NULL, the error flag is set and the operation was invalidated.
C4_SucceedsOnlyIfCompatible ==
    \A o \in Ops :
        /\ load[o].seq = "region" =>
              load[o].decode = "ok" /\ ShapeOf(load[o].real) = ShapeOf(load[o].out)
        /\ (\/ load[o].decode = "error"
            \/ load[o].decode = "ok" /\ ShapeOf(load[o].real) # ShapeOf(load[o].out)) =>
              load[o].seq = "NULL" /\ load[o].error /\ load[o].invalidated

\* C4 witness: ->load() succeeded, only BandFmt differs from the header, and
\* the load has failed.
C4_Witness ==
    \E o \in Ops :
        /\ load[o].decode = "ok" /\ load[o].error
        /\ load[o].real.BandFmt # load[o].out.BandFmt
        /\ [ShapeOf(load[o].real) EXCEPT !.BandFmt = load[o].out.BandFmt]
              = ShapeOf(load[o].out)

\* C5: a thread that asks for the load is never given an operation whose
\* error flag is set; if the cached operation has failed, what it is given is
\* a newly built operation whose ->load() has not run.
C5_NoCachedFailure ==
    [][\A t \in Threads :
          (thr[t].cur = 0 /\ thr'[t].cur # 0) =>
              /\ ~load'[thr'[t].cur].error
              /\ (cache # 0 /\ load[cache].error) =>
                    /\ thr'[t].cur # cache
                    /\ load[thr'[t].cur].life = "new"
                    /\ load'[thr'[t].cur].load_calls = 0]_vars

\* C5 witness: one thread still holds a cached-then-failed load while another
\* was given a later load for the same request, which is now the cached one.
C5_Witness ==
    \E o \in Ops, n \in Ops, t \in Threads, u \in Threads :
        /\ o < n /\ thr[u].cur = o /\ thr[t].cur = n
        /\ load[o].error /\ load[o].decode = "error" /\ ~load[o].nocache
        /\ cache = n /\ ~load[n].error

\* C6: build runs ->header() once and never ->load(): as long as no thread
\* has entered the start function of a load, ->load() has not run and there
\* is no backing image; a handler without ->load() gets no start function.
C6_DecodeOnlyOnFirstRequest ==
    \A o \in Ops :
        Live(o) =>
            /\ load[o].header_calls = 1
            /\ load[o].start_fn = arg.class_load
            /\ (load[o].seq = "none" /\ \A t \in Threads : ~InStart(t, o)) =>
                  /\ load[o].load_calls = 0
                  /\ load[o].decode = "none"
                  /\ load[o].real = NullImage
            /\ ~arg.class_load =>
                  load[o].load_calls = 0 /\ load[o].real = NullImage

\* C6 witness: a built load of a handler with ->load(), held by a thread that
\* has not asked for pixels yet.
C6_Witness ==
    \E o \in Ops, t \in Threads :
        /\ Live(o) /\ arg.class_load /\ load[o].start_fn
        /\ thr[t].cur = o /\ thr[t].pc = "idle"
        /\ load[o].seq = "none" /\ load[o].load_calls = 0

\* C7: the backing image is in memory if memory is set or disc was forced
\* false; else opened in place if the flags have PARTIAL; else in place if
\* they have SEQUENTIAL and access is not random; else a temporary file if
\* the image size is strictly over the disc threshold; else in memory.
C7_BackingStorePrecedence ==
    \A o \in Ops :
        (Live(o) /\ load[o].real # NullImage) =>
            LET forced == arg.memory \/ ~arg.disc
                inplace == \/ "PARTIAL" \in load[o].flags
                           \/ "SEQUENTIAL" \in load[o].flags /\ arg.access # "RANDOM"
                big == ImageSizeof(load[o].out) > arg.disc_threshold
                kind == load[o].real.kind
            IN  /\ kind = "partial" <=> (~forced /\ inplace)
                /\ kind = "disc" <=> (~forced /\ ~inplace /\ big)
                /\ kind = "memory" <=> (forced \/ (~inplace /\ ~big))

\* C7 witness: an image exactly as big as the disc threshold, with nothing
\* forced and no lazy flag, is decoded to memory.
C7_Witness ==
    \E o \in Ops :
        /\ Live(o) /\ load[o].real.kind = "memory"
        /\ ~arg.memory /\ arg.disc /\ load[o].flags = {}
        /\ ImageSizeof(load[o].out) = arg.disc_threshold

\* C8 as claimed: a built load reports NOCACHE exactly when its flags have
\* SEQUENTIAL and access is not random, and REVALIDATE exactly when the
\* caller set revalidate.
C8_Original ==
    \A o \in Ops :
        Live(o) =>
            LET flags == vips_foreign_load_operation_get_flags(load[o], arg)
            IN  /\ "NOCACHE" \in flags <=>
                      ("SEQUENTIAL" \in load[o].flags /\ arg.access # "RANDOM")
                /\ "REVALIDATE" \in flags <=> arg.revalidate

\* C8 as amended: a built load reports NOCACHE exactly when its flags have
\* SEQUENTIAL and access is not random or the handler class's own operation
\* flags have NOCACHE, and REVALIDATE exactly when the caller set revalidate
\* or the class's flags have it; every other reported flag is the class's.
C8_CacheFlags ==
    \A o \in Ops :
        Live(o) =>
            LET flags == vips_foreign_load_operation_get_flags(load[o], arg)
            IN  /\ "NOCACHE" \in flags <=>
                      \/ "SEQUENTIAL" \in load[o].flags /\ arg.access # "RANDOM"
                      \/ "NOCACHE" \in arg.class_flags
                /\ "REVALIDATE" \in flags <=>
                      (arg.revalidate \/ "REVALIDATE" \in arg.class_flags)
                /\ flags \ {"NOCACHE", "REVALIDATE"}
                      = arg.class_flags \ {"NOCACHE", "REVALIDATE"}

\* C8 witness: a sequential loader opened for sequential access with
\* revalidate set, whose class sets no flags of its own.
C8_Witness ==
    \E o \in Ops :
        /\ Live(o) /\ "SEQUENTIAL" \in load[o].flags
        /\ arg.access = "SEQUENTIAL_UNBUFFERED" /\ arg.revalidate
        /\ arg.class_flags = {}
        /\ vips_foreign_load_operation_get_flags(load[o], arg)
              = {"NOCACHE", "REVALIDATE"}

\* C9: the flags of a built load never have both PARTIAL and SEQUENTIAL; when
\* ->get_flags() returned both, SEQUENTIAL stays and PARTIAL goes; every other
\* bit is as ->get_flags() returned it.
C9_FlagsExclusive ==
    \A o \in Ops :
        Live(o) =>
            /\ ~({"PARTIAL", "SEQUENTIAL"} \subseteq load[o].flags)
            /\ {"PARTIAL", "SEQUENTIAL"} \subseteq arg.get_flags =>
                  "SEQUENTIAL" \in load[o].flags /\ "PARTIAL" \notin load[o].flags
            /\ load[o].flags \ {"PARTIAL"} = arg.get_flags \ {"PARTIAL"}

\* C9 witness: a built load whose handler reported all three flags.
C9_Witness ==
    \E o \in Ops :
        /\ Live(o) /\ arg.get_flags = {"PARTIAL", "BIGENDIAN", "SEQUENTIAL"}
        /\ load[o].flags = {"BIGENDIAN", "SEQUENTIAL"}

\* C10: from build on, decoded or not, the output image has the sequential
\* marker if and only if the requested access is not random.
C10_SequentialMarker ==
    \A o \in Ops : Live(o) => (load[o].sequential <=> arg.access # "RANDOM")

\* C10 witness: a loader without the SEQUENTIAL flag, opened for sequential
\* access, decoded to a temporary file and marked.
C10_Witness ==
    \E o \in Ops :
        /\ Live(o) /\ load[o].sequential /\ "SEQUENTIAL" \notin load[o].flags
        /\ load[o].seq = "region" /\ load[o].real.kind = "disc"

\* C11 as claimed: on every image a loader is producing for a built load, the
\* output image and, once it exists, the backing image,
\* vips_foreign_load_invalidate signals invalidate on that load.
C11_Original ==
    \A o \in Ops :
        Live(o) =>
            /\ InvalidateSignals(load[o].out)
            /\ load[o].real # NullImage =>
                  InvalidateSignals(load[o].real) /\ load[o].real.operation = o

\* ---------------------------------------------------------- registry claims

\* The query call has answered.
Done(call) == reg.pc = "done" /\ reg.call = call

RegLog == reg.st.log

Cls(i) == reg.classes[i]

\* Class i is tried before class j: higher priority, or the same priority
\* and registered earlier.
Before(i, j) ==
    \/ Cls(i).priority > Cls(j).priority
    \/ Cls(i).priority = Cls(j).priority /\ i < j

LoadCalls == {"find_load", "find_load_buffer", "find_load_source"}

SaveCalls == {"find_save", "find_save_target", "find_save_buffer"}

BaseOf(call) ==
    IF call \in LoadCalls THEN "VipsForeignLoad" ELSE "VipsForeignSave"

\* The classes a query may consider.
Eligible(call) ==
    {i \in 1..Len(reg.classes) :
        /\ Cls(i).base = BaseOf(call)
        /\ ~Cls(i).blocked
        /\ Cls(i).nickname[1] # "rawload"}

NickTail(i) == Cls(i).nickname[Len(Cls(i).nickname)]

\* The classes of the kind a query is for.
Candidates(call) ==
    {i \in Eligible(call) :
        CASE call = "find_load" -> NickTail(i) \notin {"_buffer", "_source"}
          [] call = "find_load_buffer" -> NickTail(i) = "_buffer"
          [] call = "find_load_source" -> NickTail(i) = "_source"
          [] call = "find_save" -> NickTail(i) \notin {"_buffer", "_target"}
          [] call = "find_save_target" -> NickTail(i) = "_target" /\ ~Cls(i).abstract
          [] call = "find_save_buffer" -> NickTail(i) = "_buffer" /\ ~Cls(i).abstract}

\* The first of a non-empty set of classes in the order they are tried.
First(S) == CHOOSE i \in S : \A j \in S \ {i} : Before(i, j)

Visits == SelectSeq(RegLog, LAMBDA e : e.ev = "visit")

\* The query went to the registered classes: all do, but for find_load on a
\* name that is no file.
Walked ==
    /\ reg.pc = "done"
    /\ reg.call = "find_load" => reg.input.entry \in Contents

\* C12: every discovery query that goes to the registered handlers visits the
\* eligible ones in descending priority order, handlers of equal priority in
\* registration order, and leaves out only handlers that come after the one
\* it returns.
C12_PriorityOrder ==
    Walked =>
        LET pass == IF reg.call = "get_suffixes"
                    THEN SubSeq(Visits, 1, Len(Visits) \div 2)
                    ELSE Visits
            seen == {pass[k].cls : k \in 1..Len(pass)}
        IN  /\ reg.call = "get_suffixes" => Visits = pass \o pass
            /\ \A j, k \in 1..Len(pass) : j < k => Before(pass[j].cls, pass[k].cls)
            /\ seen \subseteq Eligible(reg.call)
            /\ \A e \in Eligible(reg.call) \ seen :
                  reg.ret # 0 /\ \A i \in seen : Before(i, e)

\* C12 witness: a query visited two handlers, the one registered later first.
C12_Witness ==
    /\ Walked
    /\ Len(Visits) >= 2
    /\ Visits[1].cls > Visits[2].cls

\* The file loader i accepts the file by its is_a(), or, having none, by its
\* suffixes.
SniffAccepts(i) == Cls(i).is_a # "NULL" /\ Cls(i).is_a = reg.input.entry

SuffixAccepts(i) ==
    /\ Cls(i).is_a = "NULL"
    /\ \E k \in 1..Len(Cls(i).suffs) :
          vips_iscasepostfix(vips__filename_split8(reg.input.name), Cls(i).suffs[k])

\* C13 as claimed: whenever some registered, non-blocked file loader with a
\* sniff predicate accepts the content of the file, the loader returned was
\* selected by its sniff predicate.
C13_Original ==
    /\ Done("find_load")
    /\ reg.input.entry \in Contents
    /\ \E i \in Candidates("find_load") : SniffAccepts(i)
    => reg.ret # 0 /\ SniffAccepts(reg.ret)

\* C13: on a file, find_load returns the first loader in priority order that
\* accepts it (by its sniff predicate if it has one, else by suffix); a
\* loader whose sniff accepts is returned whenever no suffix-only loader that
\* matches the name comes before it.
C13_FirstAccepting ==
    Done("find_load") /\ reg.input.entry \in Contents =>
        LET acc == {i \in Candidates("find_load") :
                        SniffAccepts(i) \/ SuffixAccepts(i)}
        IN  /\ acc = {} =>
                  reg.ret = 0 /\ reg.error = "is not a known file format"
            /\ acc # {} => reg.ret = First(acc)
            /\ (\E i \in acc : /\ SniffAccepts(i)
                              /\ \A j \in acc : SuffixAccepts(j) => Before(i, j))
               => reg.ret # 0 /\ SniffAccepts(reg.ret)

\* C13 witness: a loader was selected by its sniff predicate while a
\* suffix-only loader matches the name of the file.
C13_Witness ==
    /\ Done("find_load")
    /\ reg.ret # 0
    /\ SniffAccepts(reg.ret)
    /\ \E j \in Candidates("find_load") : SuffixAccepts(j)

\* C14: find_load on a name whose filename part does not exist fails with
\* "does not exist", and on a directory with "is a directory"; no handler is
\* visited, sniffed or suffix-tested, and existence is tested first.
C14_MissingOrDirectory ==
    Done("find_load") =>
        /\ reg.input.entry = "none" =>
              /\ reg.ret = 0 /\ reg.error = "does not exist"
              /\ RegLog = <<Event("exists", 0, 0)>>
        /\ reg.input.entry = "dir" =>
              /\ reg.ret = 0 /\ reg.error = "is a directory"
              /\ RegLog = <<Event("exists", 0, 0), Event("isdir", 0, 0)>>

\* C14 witness: find_load failed on a missing file whose name a registered
\* loader would take by suffix.
C14_Witness ==
    /\ Done("find_load")
    /\ reg.input.entry = "none"
    /\ \E i \in Candidates("find_load") : SuffixAccepts(i)

\* C15: no discovery query calls anything on, or returns, a blocked handler,
\* and none returns a handler whose nickname begins with "rawload".
C15_NoBlockedNoRawload ==
    reg.pc = "done" =>
        /\ \A k \in 1..Len(RegLog) :
              RegLog[k].cls # 0 => ~Cls(RegLog[k].cls).blocked
        /\ reg.ret # 0 =>
              /\ ~Cls(reg.ret).blocked
              /\ ~vips_isprefix(<<"rawload">>, Cls(reg.ret).nickname)

\* C15 witness: find_load found nothing although a blocked loader's sniff
\* and a rawload's suffix take the file.
C15_Witness ==
    /\ Done("find_load")
    /\ reg.ret = 0
    /\ reg.input.entry \in Contents
    /\ \E i \in 1..Len(reg.classes) : Cls(i).blocked /\ SniffAccepts(i)
    /\ \E i \in 1..Len(reg.classes) :
          Cls(i).nickname[1] = "rawload" /\ SuffixAccepts(i)

\* C16: in find_load_source every call of a candidate's is_a_source comes
\* right after a rewind of the source made for that candidate, and so reads
\* from position zero.
C16_RewindBeforeSniff ==
    Done("find_load_source") =>
        \A k \in 1..Len(RegLog) :
            RegLog[k].ev = "is_a_source" =>
                /\ k > 1
                /\ RegLog[k - 1].ev = "rewind"
                /\ RegLog[k - 1].cls = RegLog[k].cls
                /\ RegLog[k].pos = 0

\* C16 witness: the source came in at position one, and two candidates
\* sniffed it, the second after the first had read from it.
C16_Witness ==
    /\ Done("find_load_source")
    /\ reg.input.pos = 1
    /\ \E j, k \in 1..Len(RegLog) :
          j < k /\ RegLog[j].ev = "is_a_source" /\ RegLog[k].ev = "is_a_source"

\* The loader i has the predicate the query needs, and accepts the input.
HasPredicate(call, i) ==
    CASE call = "find_load" -> Cls(i).is_a # "NULL" \/ Cls(i).suffs # <<>>
      [] call = "find_load_buffer" -> Cls(i).is_a_buffer # "NULL"
      [] call = "find_load_source" -> Cls(i).is_a_source # "NULL"

Accepts(call, i) ==
    CASE call = "find_load" -> SniffAccepts(i) \/ SuffixAccepts(i)
      [] call = "find_load_buffer" -> Cls(i).is_a_buffer = reg.input.content
      [] call = "find_load_source" -> Cls(i).is_a_source = reg.input.content

\* C17: a loader without the predicate its query needs is never returned and
\* does not end the search: the query still returns an accepting loader if
\* there is one, and fails with its unknown-format error otherwise.
C17_MisconfiguredSkipped ==
    \A call \in LoadCalls :
        Done(call) /\ Walked =>
            LET acc == {i \in Candidates(call) : Accepts(call, i)}
            IN  /\ reg.ret # 0 =>
                      reg.ret \in Candidates(call) /\ HasPredicate(call, reg.ret)
                /\ acc # {} => reg.ret = First(acc)
                /\ acc = {} => reg.ret = 0 /\ reg.error # ""
                /\ \A k \in 1..Len(RegLog) :
                      RegLog[k].ev = "warning" =>
                          ~HasPredicate(call, RegLog[k].cls)

\* C17 witness: a query warned about a loader without its predicate and
\* went on to return a later loader.
C17_Witness ==
    /\ Done("find_load_buffer")
    /\ reg.ret # 0
    /\ \E k \in 1..Len(RegLog) : RegLog[k].ev = "warning"

\* The saver i has a suffix that ends the filename part of the name,
\* whatever the case.
SuffixEnds(i) ==
    \E k \in 1..Len(Cls(i).suffs) :
        vips_iscasepostfix(vips__filename_split8(reg.input.name), Cls(i).suffs[k])

\* C18: find_save returns the first saver in priority order that is a file
\* saver with a suffix list one of whose suffixes ends the option-stripped
\* name, whatever the case; the target and buffer variants return the first
\* such saver of their kind; each fails with an error when there is none,
\* and none calls a sniff predicate.
C18_SaverBySuffix ==
    \A call \in SaveCalls :
        Done(call) =>
            LET match == {i \in Candidates(call) : SuffixEnds(i)}
            IN  /\ match # {} => reg.ret = First(match) /\ reg.error = ""
                /\ match = {} => reg.ret = 0 /\ reg.error # ""
                /\ \A k \in 1..Len(RegLog) :
                      RegLog[k].ev \notin {"is_a", "is_a_buffer", "is_a_source"}

\* C18 witness: find_save on an upper-case name returned a file saver that
\* comes after a buffer or target saver with the same suffix.
C18_Witness ==
    /\ Done("find_save")
    /\ reg.ret # 0
    /\ reg.input.name = <<"x", ".", "A">>
    /\ \E i \in Eligible("find_save") :
          /\ Before(i, reg.ret)
          /\ NickTail(i) \in {"_buffer", "_target"}
          /\ SuffixEnds(i)

\* -------------------------------------------------------- normaliser claims

\* The conversion of sav.in is over.
Converted == sav.pc = "done"

\* The bands, format, coding and interpretation of an image.
SameShape(a, b) ==
    /\ a.Bands = b.Bands
    /\ a.BandFmt = b.BandFmt
    /\ a.Coding = b.Coding
    /\ a.Type = b.Type

\* C19: in both fast paths (the source is packed Lab or radiance and the
\* saver takes that coding; the source is uncoded, the saver's mask is
\* exactly "any" and its table maps the source's format to itself) the
\* normaliser returns the source image itself and calls no operation,
\* whatever the other parameters are.
C19_FastPaths ==
    /\ Converted
    /\ \/ sav.in.Coding = "LABQ" /\ "LABQ" \in sav.coding
       \/ sav.in.Coding = "RAD" /\ "RAD" \in sav.coding
       \/ /\ sav.in.Coding = "NONE"
          /\ sav.saveable = {"ANY"}
          /\ sav.format[sav.in.BandFmt] = sav.in.BandFmt
    => /\ sav.cs.status = "ok"
       /\ sav.cs.in = sav.in
       /\ sav.cs.steps = <<>>

\* C19 witness: a radiance image went to a saver that takes radiance and
\* declares RGB only.
C19_Witness ==
    /\ Converted
    /\ sav.round = 1
    /\ sav.in.Coding = "RAD"
    /\ sav.coding = {"RAD"}
    /\ sav.saveable = {"RGB"}
    /\ sav.cs.status = "ok"

\* The image has the colour model, with alpha only if the saver takes it.
HasModel(im, types, bands) ==
    /\ im.Type \in types
    /\ im.Bands = bands \/ (im.Bands = bands + 1 /\ "ALPHA" \in sav.saveable)

\* The source already has a coding, a numeric format and a colour model the
\* saver allows.
Satisfies ==
    /\ sav.in.Coding \in sav.coding
    /\ sav.in.Coding = "NONE" =>
          /\ sav.format[sav.in.BandFmt] = sav.in.BandFmt
          /\ \/ sav.saveable = {"ANY"}
             \/ "MONO" \in sav.saveable /\ HasModel(sav.in, {"B_W", "GREY16"}, 1)
             \/ "RGB" \in sav.saveable /\ HasModel(sav.in, {"sRGB", "RGB16"}, 3)
             \/ "CMYK" \in sav.saveable /\ HasModel(sav.in, {"CMYK"}, 4)

\* The interpretation of the source is the 16-bit one exactly if its format
\* is 16-bit unsigned.
StandardTag ==
    sav.in.Coding = "NONE" =>
        (sav.in.Type \in {"GREY16", "RGB16"} <=> sav.in.BandFmt = "USHORT")

\* C20 as claimed, for shape alone and for images whose interpretation is
\* the standard one of their format: normalising an image that already
\* satisfies the saver's colour model, coding and format gives an image of
\* the same bands, format, coding and interpretation, and so does
\* normalising the result of a successful normalise for the same saver.
C20_Original ==
    Converted /\ sav.cs.status = "ok" /\ StandardTag
              /\ (Satisfies \/ sav.round = 2) =>
        SameShape(sav.cs.in, sav.in)

\* ------------------------------------------------ colour-model coercion

Step(op, a, n) == [op |-> op, a |-> a, n |-> n]

\* The operations the saver's colour model asks for, of those called.
CoercionOps == {"LabQ2sRGB", "rad2float", "icc_import", "icc_export", "colourspace"}

IsCoercion(s) == s.op \in CoercionOps

Coerced == SelectSeq(sav.cs.steps, IsCoercion)

\* The conversion went past both fast paths.
PastFastPaths ==
    /\ ~(sav.in.Coding # "NONE" /\ sav.in.Coding \in sav.coding)
    /\ ~(sav.in.Coding = "NONE" /\ sav.saveable = {"ANY"}
          /\ sav.format[sav.in.BandFmt] = sav.in.BandFmt)

\* The unpacking of a packed Lab or radiance source, and the image it gives.
DecodeSteps ==
    IF sav.in.Coding = "LABQ" THEN <<Step("LabQ2sRGB", "", 0)>>
    ELSE IF sav.in.Coding = "RAD" THEN <<Step("rad2float", "", 0)>>
    ELSE <<>>

DecodedSource ==
    IF DecodeSteps = <<>> THEN sav.in
    ELSE Operation(DecodeSteps[1].op, "", 0, sav.in)

SourceIs16 == sav.in.BandFmt = "USHORT"

\* Rules (a) and (b) of the coercion.
RuleMono == "MONO" \in sav.saveable /\ DecodedSource.Bands < 3

RuleCMYK ==
    /\ ~RuleMono
    /\ vips_image_guess_interpretation(DecodedSource) = "CMYK"
    /\ DecodedSource.Bands >= 4

RuleKeeps == RuleMono \/ (RuleCMYK /\ "CMYK" \in sav.saveable)

\* Rules (b) to (e): what the first matching rule calls.
RuleSteps ==
    (IF RuleCMYK /\ "CMYK" \notin sav.saveable
     THEN <<Step("icc_import", "XYZ", 0)>> ELSE <<>>)
    \o (IF RuleKeeps THEN <<>>
        ELSE IF "RGB" \in sav.saveable
        THEN <<Step("colourspace", IF SourceIs16 THEN "RGB16" ELSE "sRGB", 0)>>
        ELSE IF "CMYK" \in sav.saveable
        THEN <<Step("icc_export", IF SourceIs16 THEN "16" ELSE "8", 0)>>
        ELSE IF "MONO" \in sav.saveable
        THEN <<Step("colourspace", IF SourceIs16 THEN "GREY16" ELSE "B_W", 0)>>
        ELSE <<>>)

UnsupportedOutputModel ==
    ~RuleKeeps /\ sav.saveable \cap {"MONO", "RGB", "CMYK"} = {}

IsPrefix(s, t) == Len(s) <= Len(t) /\ s = SubSeq(t, 1, Len(s))

\* C21: for a saver whose mask is not "any", once past the fast paths, the
\* colour operations called are the unpacking of a coded source followed by
\* what the first matching rule of (a) to (e) asks for, with the 16-bit
\* variants exactly for a 16-bit unsigned source; a conversion that failed
\* in a call stopped somewhere along this list; and a mask with none of
\* mono, RGB and CMYK makes the conversion fail, after these calls and with
\* no other, unless rule (a) or (b) keeps the image.
C21_FirstMatchingRule ==
    Converted /\ sav.saveable # {"ANY"} /\ PastFastPaths =>
        /\ sav.cs.status = "ok" =>
                Coerced = DecodeSteps \o RuleSteps /\ ~UnsupportedOutputModel
        /\ sav.cs.status = "error" => IsPrefix(Coerced, DecodeSteps \o RuleSteps)
        /\ UnsupportedOutputModel =>
                /\ sav.cs.status = "error"
                /\ sav.cs.fail = 0 => sav.cs.steps = DecodeSteps \o RuleSteps

\* C21 witness: a 16-bit CMYK image went to a saver of RGB only, and was
\* imported and then taken to 16-bit RGB.
C21_Witness ==
    /\ Converted
    /\ sav.round = 1
    /\ sav.saveable = {"RGB"}
    /\ sav.in.Type = "CMYK"
    /\ sav.in.BandFmt = "USHORT"
    /\ sav.cs.status = "ok"
    /\ Coerced = <<Step("icc_import", "XYZ", 0), Step("colourspace", "RGB16", 0)>>

\* ------------------------------------------------- alpha and excess bands

\* The image a list of operations makes from im.
RECURSIVE ImageAfter(_, _)
ImageAfter(steps, im) ==
    IF steps = <<>> THEN im
    ELSE ImageAfter(Tail(steps),
                    Operation(steps[1].op, steps[1].a, steps[1].n, im))

IsFlatten(s) == s.op = "flatten"

IsExtract(s) == s.op = "extract_band"

IsColourOrFlatten(s) == IsCoercion(s) \/ IsFlatten(s)

Flattens == SelectSeq(sav.cs.steps, IsFlatten)

Extracts == SelectSeq(sav.cs.steps, IsExtract)

\* The image after colour coercion, and the image after the flatten step.
Coloured == ImageAfter(Coerced, sav.in)

Flattened == ImageAfter(SelectSeq(sav.cs.steps, IsColourOrFlatten), sav.in)

\* The coerced image is uncoded with alpha and the mask has no alpha bit.
AlphaUnsupported ==
    /\ Coloured.Coding = "NONE"
    /\ vips_image_hasalpha(Coloured)
    /\ "ALPHA" \notin sav.saveable

PastOk == Converted /\ sav.cs.status = "ok" /\ PastFastPaths

Expected(im) ==
    IF ColourBands(vips_image_guess_interpretation(im)) = 0 THEN 0
    ELSE ColourBands(vips_image_guess_interpretation(im))
            + (IF "ALPHA" \in sav.saveable THEN 1 ELSE 0)

Excess == Flattened.Coding = "NONE" /\ Expected(Flattened) > 0
            /\ Flattened.Bands > Expected(Flattened)

\* C23 as claimed: an uncoded image with more bands than expected ends the
\* trimming step with exactly the expected number of bands.
C23_Original ==
    PastOk /\ Excess /\ StandardTag /\ sav.cs.in.Coding = "NONE" =>
        sav.cs.in.Bands = Expected(Flattened)

\* C23: for a mask other than "any", an uncoded image that reaches the
\* trimming step with more bands than expected is cut by one extract_band
\* call, from band 0, to exactly the expected number of bands; an image with
\* no more bands than expected is not cut.
C23_Trimmed ==
    PastOk /\ sav.saveable # {"ANY"} /\ Expected(Flattened) > 0 =>
        /\ Excess =>
              /\ Extracts = <<Step("extract_band", "0", Expected(Flattened))>>
              /\ sav.cs.in.Coding = "NONE" => sav.cs.in.Bands = Expected(Flattened)
        /\ ~Excess => Extracts = <<>>

\* C23 witness: a 5-band image tagged sRGB went to a saver of RGB without
\* alpha and came out with 3 bands.
C23_Witness ==
    /\ PastOk
    /\ sav.in = VImage(0, 5, "UCHAR", "NONE", "sRGB")
    /\ sav.saveable = {"RGB"}
    /\ Len(Extracts) = 1
    /\ sav.cs.in.Bands = 3

\* ------------------------------------------------------------ numeric cast

IsCast(s) == s.op = "cast"

Casts == SelectSeq(sav.cs.steps, IsCast)

IsBeforeCast(s) == IsColourOrFlatten(s) \/ IsExtract(s)

\* The image the cast step is given.
Trimmed == ImageAfter(SelectSeq(sav.cs.steps, IsBeforeCast), sav.in)

\* Values of a 16-bit band element: 0x1234, 0x00FF, 0xFF00, 0xFFFF, 0.
Samples16 == {4660, 255, 65280, 65535, 0}

Wide(f) == f \in {"USHORT", "FLOAT"}

\* C24: past the fast paths, an uncoded image of format f at the cast step
\* is cast exactly once, to table[f], with shift asked for exactly when f is
\* wider than 8 bits and table[f] is 8-bit unsigned; a coded image is not
\* cast.  For a 16-bit unsigned image and an 8-bit table the cast asked for
\* gives the high byte of every value, 0x12 for 0x1234, and not the low
\* byte 0x34.
C24_CastShift ==
    PastOk =>
        /\ Trimmed.Coding # "NONE" => Casts = <<>>
        /\ Trimmed.Coding = "NONE" =>
              /\ Casts = <<Step("cast", sav.format[Trimmed.BandFmt],
                                IF Wide(Trimmed.BandFmt)
                                   /\ sav.format[Trimmed.BandFmt] = "UCHAR"
                                THEN 1 ELSE 0)>>
              /\ Trimmed.BandFmt = "USHORT" /\ sav.format["USHORT"] = "UCHAR" =>
                    /\ \A v \in Samples16 :
                          vips_cast_value(v, "USHORT", Casts[1].a, Casts[1].n)
                              = v \div 256
                    /\ vips_cast_value(4660, "USHORT", Casts[1].a, Casts[1].n) = 18
                    /\ vips_cast_value(4660, "USHORT", Casts[1].a, Casts[1].n)
                            # 4660 % 256

\* C24 witness: a 16-bit RGB image went to a saver of RGB with an 8-bit
\* table and was cast to 8 bits with shift.
C24_Witness ==
    /\ PastOk
    /\ sav.in = VImage(0, 3, "USHORT", "NONE", "RGB16")
    /\ sav.saveable = {"RGB"}
    /\ Casts = <<Step("cast", "UCHAR", 1)>>
    /\ sav.cs.in.BandFmt = "UCHAR"

\* ---------------------------------------------------------------- re-coding

IsEncode(s) == s.op \in {"Lab2LabQ", "float2rad"}

IsBeforeRecode(s) == IsBeforeCast(s) \/ IsCast(s)

\* The image operation k of the conversion was given, and the image the
\* re-coding step was given.
ImageBefore(k) == ImageAfter(SubSeq(sav.cs.steps, 1, k - 1), sav.in)

Casted == ImageAfter(SelectSeq(sav.cs.steps, IsBeforeRecode), sav.in)

\* C25 as claimed: an image that reaches the re-coding step in a coding the
\* saver does not take, for a saver that takes uncoded images, is decoded,
\* and the packed Lab and radiance encoders are called on uncoded images
\* only.
C25_Original ==
    Converted =>
        /\ /\ PastOk
           /\ Casted.Coding # "NONE"
           /\ Casted.Coding \notin sav.coding
           /\ "NONE" \in sav.coding
           => /\ sav.cs.steps[Len(sav.cs.steps)].op = "image_decode"
              /\ sav.cs.in.Coding = "NONE"
        /\ \A k \in 1..Len(sav.cs.steps) :
              IsEncode(sav.cs.steps[k]) => ImageBefore(k).Coding = "NONE"

\* -------------------------------------------------------- reference balance

\* The references the conversion still holds, on any image but the one of id.
HeldBut(id) ==
    {i \in 1..Len(sav.cs.held) : i # id + 1 /\ sav.cs.held[i] # 0}

\* C26 as claimed: a conversion that failed holds no reference on any image,
\* the source among them; one that succeeded holds exactly one, on the image
\* it returns.
C26_Original ==
    Converted =>
        /\ sav.cs.status = "error" =>
              \A i \in 1..Len(sav.cs.held) : sav.cs.held[i] = 0
        /\ sav.cs.status = "ok" =>
              /\ sav.cs.held[sav.cs.in.id + 1] = 1
              /\ HeldBut(sav.cs.in.id) = {}

\* ------------------------------------------------------- metadata policy

Built == save.pc = "built"

\* The image to be encoded, once a build succeeded.
ReadyImage == save.images[save.ready]

\* The keep flag of each of the four named fields.
NamedFields ==
    {<<<<"exif", "-data">>, "EXIF">>, <<<<"xmp", "-data">>, "XMP">>,
     <<<<"iptc", "-data">>, "IPTC">>, <<<<"icc-profile", "-data">>, "ICC">>}

OtherFields == MetadataFields \ {n[1] : n \in NamedFields}

\* C27 as claimed: with a keep mask other than keep-all, an EXIF, XMP, IPTC
\* or ICC field is still there after the policy only if its own flag is in
\* the mask, and another metadata field only if OTHER is.
C27_Original ==
    Built /\ save.status = "ok" /\ save.keep # KeepAll =>
        /\ \A n \in NamedFields :
              n[1] \in ReadyImage.fields => n[2] \in save.keep
        /\ \A f \in OtherFields :
              f \in ReadyImage.fields => "OTHER" \in save.keep

\* The build came to the metadata policy, and vips__exif_update did not
\* fail in it.
PolicyRan ==
    /\ Built
    /\ save.at \in {"", "vips__foreign_update_metadata"}
    /\ "EXIF" \in save.keep => save.a.exif = "ok"

ProfileBefore == save.before[1].icc

\* C28: when ICC is in the keep mask and the image has a profile, the
\* policy does not fail; a compatible profile is still attached after it
\* and an incompatible one is not.
C28_ProfileDropped ==
    PolicyRan /\ "ICC" \in save.keep
              /\ ProfileBefore \in {"compatible", "incompatible"} =>
        /\ save.status = "ok"
        /\ ProfileBefore = "compatible" =>
              /\ <<"icc-profile", "-data">> \in ReadyImage.fields
              /\ ReadyImage.icc = "compatible"
        /\ ProfileBefore = "incompatible" =>
              /\ <<"icc-profile", "-data">> \notin ReadyImage.fields
              /\ ReadyImage.icc = "none"

\* C28 witness: a save that keeps ICC only was built for an image with an
\* incompatible profile, and the image to encode has none.
C28_Witness ==
    /\ Built
    /\ save.status = "ok"
    /\ save.keep = {"ICC"}
    /\ ProfileBefore = "incompatible"
    /\ ReadyImage.icc = "none"

\* C29: after the build of a save whose profile argument was set, save->keep
\* has the ICC flag, whatever keep and strip were, and whether or not the
\* build succeeded.
C29_ProfileKeepsICC ==
    Built /\ save.a.profile = "set" => "ICC" \in save.keep

\* C29 witness: a save with strip set to true, keep not given and profile
\* set was built, and keeps ICC alone.
C29_Witness ==
    /\ Built
    /\ save.a.strip = "TRUE"
    /\ ~save.a.keep_isset
    /\ save.a.profile = "set"
    /\ save.keep = {"ICC"}
    /\ save.status = "ok"

\* C30: once the start function of a load has returned NULL to a pixel
\* request, whatever the reason was (the backing image was not made, ->load()
\* failed, the decoded image does not match the header, or the output was not
\* linked to the backing image), it never returns a region to a later request
\* on the same load.
C30_Original ==
    [][\A o \in Ops :
          (load[o].seq = "NULL" /\ load[o].life = "built"
              /\ load'[o].life = "built") =>
              load'[o].seq # "region"]_vars

\* ---------------------------------------------------- frame of the policy

\* C31: after the build of a save, whether it succeeded or failed, save->in
\* has the metadata it had before: the policy and the page-height setting
\* worked on an image of their own.
C31_InputUntouched ==
    Built => save.images[1] = save.before[1]

\* C31 witness: a saver that takes the image as it is (the normaliser
\* returned save->in itself) was built, the image to encode lost or gained
\* fields, and it is not save->in.
C31_Witness ==
    /\ Built
    /\ save.status = "ok"
    /\ Len(save.images) = 2
    /\ save.ready = 2
    /\ ReadyImage.fields # save.before[1].fields
    /\ save.images[1] = save.before[1]

\* The fields save->in had and the image to encode has not.
Removed == save.before[1].fields \ ReadyImage.fields

\* A name the filter looks at: it ends in "-data", starts with "png-comment-"
\* or "magickprofile-", or is image-description.
IsMetadataName(field) ==
    \/ field[Len(field)] = "-data"
    \/ field[1] \in {"png-comment-", "magickprofile-"}
    \/ field = <<"image-description">>

\* C32: whatever the keep mask, every field the image to encode lost has a
\* metadata name; the loader name, page height, resolution unit and
\* sequential marker of save->in are still there, page-height with the value
\* it had unless the page_height argument set another; and with keep-all
\* nothing is lost but a profile that is not compatible with the image, which
\* the profile test drops, not the filter.
C32_OnlyMetadataRemoved ==
    Built /\ save.status = "ok" =>
        /\ \A field \in Removed : IsMetadataName(field)
        /\ \A field \in HeaderFields :
              field \in save.before[1].fields => field \in ReadyImage.fields
        /\ save.a.page_height = 0 =>
              ReadyImage.page_height = save.before[1].page_height
        /\ save.keep = KeepAll =>
              /\ Removed \subseteq {<<"icc-profile", "-data">>}
              /\ Removed # {} => ProfileBefore = "incompatible"

\* C32 witness: a save that keeps nothing was built for an image with all
\* the metadata fields and the four header fields; every metadata field is
\* gone and the four header fields are there.
C32_Witness ==
    /\ Built
    /\ save.status = "ok"
    /\ save.keep = {}
    /\ save.before[1].fields = HeaderFields \cup MetadataFields
    /\ Removed = MetadataFields
    /\ ReadyImage.fields = HeaderFields

\* C33 as claimed: after the policy ran, with any keep mask, a profile (a
\* blob in icc-profile-data) that is still on the image to encode is one the
\* compatibility check passed.
C33_Original ==
    Built /\ save.status = "ok"
          /\ <<"icc-profile", "-data">> \in ReadyImage.fields
          /\ vips_image_get_blob(ReadyImage) =>
        ReadyImage.icc = "compatible"

\* ------------------------------------------- band count, format and coding

\* The image at the trimming step is uncoded and its guessed interpretation
\* has no expected band count.
NoExpectedCount ==
    /\ Flattened.Coding = "NONE"
    /\ ColourBands(vips_image_guess_interpretation(Flattened)) = 0

\* C36 as claimed: an image that reaches the trimming step with a guessed
\* interpretation other than grey, RGB-family or CMYK keeps all its bands,
\* for a saver with and without the alpha bit.
C36_Original ==
    PastOk /\ NoExpectedCount =>
        /\ Extracts = <<>>
        /\ sav.cs.in.Coding = "NONE" => sav.cs.in.Bands = Flattened.Bands

\* C37 as claimed: for a saver whose mask is exactly "any", an uncoded source
\* comes out with the bands it had, with no flatten and no extract_band
\* call, also when the format table changes its format.
C37_Original ==
    Converted /\ sav.cs.status = "ok" /\ sav.saveable = {"ANY"}
              /\ sav.in.Coding = "NONE" =>
        /\ Flattens = <<>>
        /\ Extracts = <<>>
        /\ sav.cs.in.Coding = "NONE" => sav.cs.in.Bands = sav.in.Bands

\* C38 as claimed: an uncoded image a conversion returns has the format the
\* saver's table gives for the format the image had at the cast step (on a
\* fast path: the format of the source, which the table keeps), also for a
\* source that came in coded and was decoded on the way.
C38_Original ==
    Converted /\ sav.cs.status = "ok" /\ sav.cs.in.Coding = "NONE" =>
        sav.cs.in.BandFmt = sav.format[Trimmed.BandFmt]

\* C39 as claimed: a conversion that succeeds for a saver that takes at
\* least one coding returns an image in a coding the saver takes, whatever
\* the coding of the source and the mask.
C39_Original ==
    Converted /\ sav.cs.status = "ok" /\ sav.coding # {} =>
        sav.cs.in.Coding \in sav.coding

\* ----------------------------------------------------------- TIFF claims

TiffWritten == tiff.pc = "built" /\ tiff.status = "ok"

\* The image saved is packed Lab, or uncoded with the interpretation its
\* bands and format suggest.
TiffPlainInput ==
    \/ tiff.in.Coding = "LABQ"
    \/ /\ tiff.in.Coding = "NONE"
       /\ vips_image_guess_interpretation(tiff.in) = tiff.in.Type
       /\ tiff.in.Type \in {"GREY16", "RGB16"} <=> tiff.in.BandFmt = "USHORT"

\* C34 as claimed: with jpeg compression the image vips__tiff_write_target
\* is given is uncoded, 8-bit unsigned and has no alpha band, for 16-bit,
\* float, alpha-carrying and packed-Lab images alike.
C34_Original ==
    TiffWritten /\ tiff.a.compression = "JPEG" /\ TiffPlainInput =>
        /\ tiff.ready.Coding = "NONE"
        /\ tiff.ready.BandFmt = "UCHAR"
        /\ ~vips_image_hasalpha(tiff.ready)

\* The unit the resolution passed to the writer was scaled for: pixels/mm
\* times 25.4 is pixels/inch, times 10 pixels/cm.
ScaledFor(unit) ==
    LET scale == IF unit = "INCH" THEN 254 ELSE 100
    IN  /\ tiff.xres = scale * (IF tiff.a.xres_isset THEN tiff.a.xres
                                ELSE tiff.a.Xres)
        /\ tiff.yres = scale * (IF tiff.a.yres_isset THEN tiff.a.yres
                                ELSE tiff.a.Yres)

\* C35 as claimed: the unit passed to the writer is the resunit argument if
\* it was given, else inch if the resolution-unit string of the image starts
\* with "in", else cm; and xres and yres are scaled for the unit passed.
C35_Original ==
    TiffWritten =>
        /\ tiff.resunit =
              IF tiff.a.resunit_isset THEN tiff.a.resunit
              ELSE IF tiff.a.unit.type = "string"
                      /\ tiff.a.unit.p # <<>> /\ tiff.a.unit.p[1] = "in"
              THEN "INCH" ELSE "CM"
        /\ ScaledFor(tiff.resunit)

====
